---- MODULE Spec2Model ----
(***************************************************************************)
(* Model of the yt-downloader server (src/server.js) download pipeline.    *)
(*                                                                         *)
(* src/server.js holds two builds of the server one after the other:       *)
(*   "current" (lines 1-890):   downloadVideoForWeb = downloadViaYtDlp     *)
(*                              with the downloadViaInvidious fallback;    *)
(*   "legacy"  (lines 891-1677): downloadVideoForWeb with three strategies *)
(*                              and the error classification, no fallback. *)
(* The variable build says which one the process runs.                     *)
(*                                                                         *)
(* Text is modelled by TLA+ strings, which TLC treats as sequences of      *)
(* characters (Len, \o, SubSeq, Head, Tail).  Accented letters of the      *)
(* Portuguese messages are written without the accent; no pattern the      *)
(* code searches for contains one.                                         *)
(***************************************************************************)
EXTENDS Integers, Sequences, FiniteSets, TLC

(***************************************************************************)
(* String helpers: String.prototype.includes / startsWith / trim           *)
(***************************************************************************)
CharAt(s, i) == SubSeq(s, i, i)

Drop(s, n) == SubSeq(s, n + 1, Len(s))

StartsWith(s, p) == Len(s) >= Len(p) /\ SubSeq(s, 1, Len(p)) = p

Includes(s, sub) ==
    \E i \in 1..(Len(s) - Len(sub) + 1) : SubSeq(s, i, i + Len(sub) - 1) = sub

\* the characters removed by /[<>:"/\\|?*]/g
IllegalChars == {"<", ">", ":", "\"", "/", "\\", "|", "?", "*"}

\* the characters matched by \s (and removed by trim) that the model draws
WhitespaceChars == {" ", "\t", "\n"}

\* [\w-]
WordChars ==
    {"a","b","c","d","e","f","g","h","i","j","k","l","m",
     "n","o","p","q","r","s","t","u","v","w","x","y","z",
     "A","B","C","D","E","F","G","H","I","J","K","L","M",
     "N","O","P","Q","R","S","T","U","V","W","X","Y","Z",
     "0","1","2","3","4","5","6","7","8","9","_","-"}

(***************************************************************************)
(* sanitizeFilename: filename.replace(/[<>:"/\\|?*]/g, '')                 *)
(*                           .replace(/\s+/g, ' ').trim()                  *)
(***************************************************************************)
RECURSIVE RemoveIllegal(_)
RemoveIllegal(s) ==
    IF s = "" THEN ""
    ELSE IF Head(s) \in IllegalChars THEN RemoveIllegal(Tail(s))
    ELSE Head(s) \o RemoveIllegal(Tail(s))

RECURSIVE SkipWhitespace(_)
SkipWhitespace(s) ==
    IF s # "" /\ Head(s) \in WhitespaceChars THEN SkipWhitespace(Tail(s)) ELSE s

\* .replace(/\s+/g, ' '): every maximal run of whitespace becomes one space
RECURSIVE CollapseWhitespace(_)
CollapseWhitespace(s) ==
    IF s = "" THEN ""
    ELSE IF Head(s) \in WhitespaceChars
         THEN " " \o CollapseWhitespace(SkipWhitespace(s))
    ELSE Head(s) \o CollapseWhitespace(Tail(s))

RECURSIVE TrimEnd(_)
TrimEnd(s) ==
    IF s # "" /\ CharAt(s, Len(s)) \in WhitespaceChars
    THEN TrimEnd(SubSeq(s, 1, Len(s) - 1))
    ELSE s

Trim(s) == TrimEnd(SkipWhitespace(s))

\* a plausible slip: the illegal characters removed last, after the trim
sanitizeFilename_RemoveLast(filename) ==
    RemoveIllegal(Trim(CollapseWhitespace(filename)))

\* a plausible slip: trimming before the whitespace runs are collapsed and
\* the illegal characters removed
sanitizeFilename_TrimFirst(filename) ==
    CollapseWhitespace(RemoveIllegal(Trim(filename)))

sanitizeFilename(filename) ==
    Trim(CollapseWhitespace(RemoveIllegal(filename)))

(***************************************************************************)
(* validateYouTubeUrl:                                                     *)
(* /^https?:\/\/(www\.)?(youtube\.com\/watch\?v=|youtu\.be\/)[\w-]{11}/    *)
(***************************************************************************)
UrlHeads ==
    { scheme \o www \o host :
        scheme \in {"http://", "https://"},
        www \in {"", "www."},
        host \in {"youtube.com/watch?v=", "youtu.be/"} }

\* a plausible slip: the host is checked, the 11-character id is not
validateYouTubeUrl_NoId(url) ==
    \E p \in UrlHeads : StartsWith(url, p)

validateYouTubeUrl(url) ==
    \E p \in UrlHeads :
        /\ StartsWith(url, p)
        /\ Len(url) >= Len(p) + 11
        /\ \A i \in 1..11 : CharAt(url, Len(p) + i) \in WordChars

(***************************************************************************)
(* extractVideoId: /(?:youtube\.com\/watch\?v=|youtu\.be\/)([^&\n?#]+)/    *)
(* "" stands for null (the capture group is never empty).                  *)
(***************************************************************************)
IdStopChars == {"&", "\n", "?", "#"}

RECURSIVE TakeId(_)
TakeId(s) ==
    IF s = "" \/ Head(s) \in IdStopChars THEN ""
    ELSE Head(s) \o TakeId(Tail(s))

IdMatchAt(url, i) ==
    LET rest == Drop(url, i - 1) IN
    IF StartsWith(rest, "youtube.com/watch?v=")
        THEN TakeId(Drop(rest, Len("youtube.com/watch?v=")))
    ELSE IF StartsWith(rest, "youtu.be/")
        THEN TakeId(Drop(rest, Len("youtu.be/")))
    ELSE ""

\* the leftmost position at which the pattern matches
RECURSIVE FirstIdFrom(_, _)
FirstIdFrom(url, i) ==
    IF i > Len(url) THEN ""
    ELSE IF IdMatchAt(url, i) # "" THEN IdMatchAt(url, i)
    ELSE FirstIdFrom(url, i + 1)

extractVideoId(youtubeUrl) == FirstIdFrom(youtubeUrl, 1)

(***************************************************************************)
(* encodeURIComponent, on the characters a file name of the model can hold *)
(***************************************************************************)
PercentCode(c) ==
    CASE c = " "  -> "%20"
      [] c = "%"  -> "%25"
      [] c = "#"  -> "%23"
      [] c = "&"  -> "%26"
      [] c = "\t" -> "%09"
      [] c = "\n" -> "%0A"
      [] OTHER    -> c

RECURSIVE encodeURIComponent(_)
encodeURIComponent(s) ==
    IF s = "" THEN "" ELSE PercentCode(Head(s)) \o encodeURIComponent(Tail(s))

(***************************************************************************)
(* decodeURIComponent, on the escapes a request of the model can hold; any *)
(* other escape stands for a malformed one (URIError).                     *)
(***************************************************************************)
PercentDecode(code) ==
    CASE code = "%2F" -> "/"
      [] code = "%2E" -> "."
      [] code = "%25" -> "%"
      [] code = "%20" -> " "
      [] code = "%23" -> "#"
      [] code = "%26" -> "&"
      [] OTHER        -> ""

RECURSIVE IsWellEncoded(_)
IsWellEncoded(s) ==
    IF s = "" THEN TRUE
    ELSE IF Head(s) # "%" THEN IsWellEncoded(Tail(s))
    ELSE /\ Len(s) >= 3
         /\ PercentDecode(SubSeq(s, 1, 3)) # ""
         /\ IsWellEncoded(Drop(s, 3))

RECURSIVE decodeURIComponent(_)
decodeURIComponent(s) ==
    IF s = "" THEN ""
    ELSE IF Head(s) # "%" THEN CharAt(s, 1) \o decodeURIComponent(Tail(s))
    ELSE PercentDecode(SubSeq(s, 1, 3)) \o decodeURIComponent(Drop(s, 3))

(***************************************************************************)
(* path.join(__dirname, 'downloads', filename): the segments are joined    *)
(* and the result normalized; '.' and empty segments drop out, '..' takes  *)
(* the segment before it away.  A path is the sequence of its segments.    *)
(***************************************************************************)
RECURSIVE SplitPath(_)
SplitPath(s) ==
    IF s = "" THEN <<"">>
    ELSE IF Head(s) = "/" THEN <<"">> \o SplitPath(Tail(s))
    ELSE LET rest == SplitPath(Tail(s))
         IN  <<CharAt(s, 1) \o rest[1]>> \o Tail(rest)

RECURSIVE Normalize(_, _)
Normalize(segments, stack) ==
    IF segments = <<>> THEN stack
    ELSE IF Head(segments) \in {"", "."} THEN Normalize(Tail(segments), stack)
    ELSE IF Head(segments) = ".."
        THEN Normalize(Tail(segments),
                       IF stack = <<>> THEN <<>> ELSE SubSeq(stack, 1, Len(stack) - 1))
    ELSE Normalize(Tail(segments), Append(stack, Head(segments)))

\* __dirname
AppDir == <<"app">>

\* path.join(__dirname, 'downloads')
DownloadsPath == AppDir \o <<"downloads">>

PathJoin(dir, filename) == Normalize(dir \o SplitPath(filename), <<>>)

(***************************************************************************)
(* parseInt on a label such as "720p": the leading decimal digits, or NaN  *)
(* (written -1) when there is none.                                        *)
(***************************************************************************)
DigitValue(c) ==
    CASE c = "0" -> 0 [] c = "1" -> 1 [] c = "2" -> 2 [] c = "3" -> 3
      [] c = "4" -> 4 [] c = "5" -> 5 [] c = "6" -> 6 [] c = "7" -> 7
      [] c = "8" -> 8 [] c = "9" -> 9 [] OTHER -> -1

RECURSIVE ParseDigits(_, _)
ParseDigits(s, acc) ==
    IF s = "" \/ DigitValue(Head(s)) < 0 THEN acc
    ELSE ParseDigits(Tail(s), acc * 10 + DigitValue(Head(s)))

NaN == -1

parseInt(s) ==
    IF s = "" \/ DigitValue(Head(s)) < 0 THEN NaN ELSE ParseDigits(s, 0)

(***************************************************************************)
(* formatDuration of downloadViaInvidious and durationString of the        *)
(* primary path:                                                           *)
(* `${Math.floor(s / 60)}:${(s % 60).toString().padStart(2, '0')}`         *)
(***************************************************************************)
\* a plausible slip: the seconds are not padded
PadStart2_None(s) == s

PadStart2(s) == IF Len(s) < 2 THEN "0" \o s ELSE s

formatDuration(seconds) ==
    ToString(seconds \div 60) \o ":" \o PadStart2(ToString(seconds % 60))

\* parseInt(info.duration) || 0: the number is converted to its decimal
\* text and parsed; NaN and 0 are falsy
ParsedDuration(duration) ==
    IF parseInt(ToString(duration)) = NaN THEN 0 ELSE parseInt(ToString(duration))

durationString(duration) ==
    LET minutes == ParsedDuration(duration) \div 60
        seconds == ParsedDuration(duration) % 60
    IN  ToString(minutes) \o ":" \o PadStart2(ToString(seconds))

(***************************************************************************)
(* The inputs the model draws                                              *)
(***************************************************************************)
\* files one run of the external downloader writes
MaxToolWrites == 1

\* req.body of POST /download: a field is present or not
Body(hasUrl, url, hasFormat, format) ==
    [hasUrl |-> hasUrl, url |-> url, hasFormat |-> hasFormat, format |-> format]

UrlWatch == "https://www.youtube.com/watch?v=dQw4w9WgXcQ"
\* an 11-character id that happens to contain "age" and "bot"
UrlShort == "http://youtu.be/page_bot-01&t=5"

ValidBodies ==
    { Body(TRUE, UrlWatch, FALSE, ""),
      Body(TRUE, UrlShort, TRUE, "mp3") }

InvalidBodies ==
    { Body(FALSE, "", TRUE, "mp4"),
      Body(TRUE, "", TRUE, "mp4"),
      Body(TRUE, "https://vimeo.com/12345678901", TRUE, "mp4"),
      Body(TRUE, "https://youtu.be/short", FALSE, ""),
      Body(TRUE, "ftp://youtu.be/dQw4w9WgXcQ", TRUE, "webm"),
      Body(TRUE, "https://www.youtube.com/watch?v=dQw4w9WgXc!", TRUE, "mp3"),
      Body(TRUE, UrlWatch, TRUE, "avi"),
      Body(TRUE, UrlWatch, TRUE, "") }

Bodies == ValidBodies \cup InvalidBodies

\* what the external downloader prints on stderr when it fails
StdErrs ==
    { "ERROR: [youtube] Sign in to confirm you're not a bot",
      "ERROR: [youtube] Video unavailable" }

\* the stderr of a run that exits 0 is not looked at: one value stands for it
AnyStdErr == CHOOSE e \in StdErrs : TRUE

\* the JSON object of --dump-single-json: title may be absent; height 0
\* stands for an absent height
VideoInfo(hasTitle, title, duration, height) ==
    [hasTitle |-> hasTitle, title |-> title, duration |-> duration, height |-> height]

NoInfo == VideoInfo(FALSE, "", 0, 0)

Infos ==
    { VideoInfo(TRUE, "foo", 125, 720),
      VideoInfo(TRUE, " a<b  c? ", 59, 0),
      VideoInfo(TRUE, "???", 0, 1080),
      VideoInfo(FALSE, "", 0, 360) }

\* how the metadata query ends: the exec fails, or stdout is not JSON, or it
\* is the JSON text null, or it is a JSON object
InfoOutcomes ==
    [kind : {"execFail"}, stderr : StdErrs, info : {NoInfo}]
    \cup [kind : {"garbage", "null"}, stderr : {""}, info : {NoInfo}]
    \cup [kind : {"json"}, stderr : {""}, info : Infos]

\* the extension the external downloader gives the file it writes: the
\* finished file or a partial one
ToolExts == {"mp4", "part"}

\* 0 and a non-zero size
FileSizes == {0, 1024}

\* a formatStreams entry of the secondary source
Stream(container, qualityLabel) ==
    [container |-> container, qualityLabel |-> qualityLabel]

NoStream == Stream("", "")

\* the JSON of GET /api/v1/videos/{id}; formatStreams may be absent
VideoData(hasTitle, title, lengthSeconds, hasStreams, streams) ==
    [hasTitle |-> hasTitle, title |-> title, lengthSeconds |-> lengthSeconds,
     hasStreams |-> hasStreams, formatStreams |-> streams]

NoData == VideoData(FALSE, "", 0, FALSE, <<>>)

Datas ==
    { VideoData(TRUE, "foo", 125, TRUE, <<Stream("mp4", "360p"), Stream("mp4", "720p")>>),
      VideoData(TRUE, "???", 59, TRUE, <<Stream("webm", "720p"), Stream("mp4", "1080p")>>),
      VideoData(TRUE, "bar", 0, TRUE, <<Stream("webm", "720p")>>),
      VideoData(FALSE, "", 0, TRUE, <<Stream("mp4", "")>>),
      VideoData(TRUE, "foo", 0, FALSE, <<>>) }

\* how the metadata fetch of one instance ends: fetch or response.json()
\* throws, the status is not OK, the JSON has an error field, or it is data
MetaOutcomes ==
    [kind : {"throw", "notOk", "apiError"}, data : {NoData}]
    \cup [kind : {"data"}, data : Datas]

\* how the fetch of the stream ends: fetch or arrayBuffer() throws, the
\* status is not OK, or the body arrives with that many bytes
VideoOutcomes ==
    [kind : {"throw", "notOk"}, bytes : {0}]
    \cup [kind : {"ok"}, bytes : FileSizes]

(***************************************************************************)
(* Commands and error messages                                             *)
(***************************************************************************)
ytdlpOptions == <<"yt-dlp", "python3 -m yt_dlp", "/opt/venv/bin/yt-dlp">>

LocalYtDlp == "./yt-dlp"

versionCommand(cmd) == cmd \o " --version"

infoCommand(ytDlpCommand, videoUrl) ==
    ytDlpCommand \o " --dump-single-json --no-warnings \"" \o videoUrl \o "\""

commonArgs ==
    "--user-agent \"Mozilla/5.0 (Windows NT 10.0; Win64; x64) AppleWebKit/537.36\" "
    \o "--add-header \"Accept:text/html,application/xhtml+xml,application/xml;q=0.9,*/*;q=0.8\" "
    \o "--no-warnings"

outputTemplate(sanitizedTitle) == sanitizedTitle \o ".%(ext)s"

\* downloadStrategies of downloadViaYtDlp
downloadStrategiesCurrent(ytDlpCommand, sanitizedTitle, videoUrl) ==
    << ytDlpCommand \o " " \o commonArgs
          \o " --format \"best[ext=mp4][height<=1080]/best\" --output \""
          \o outputTemplate(sanitizedTitle) \o "\" \"" \o videoUrl \o "\"",
       ytDlpCommand \o " " \o commonArgs
          \o " --format \"worst[ext=mp4]/worst\" --output \""
          \o outputTemplate(sanitizedTitle) \o "\" \"" \o videoUrl \o "\"" >>

\* downloadStrategies of the legacy downloadVideoForWeb
downloadStrategiesLegacy(ytDlpCommand, sanitizedTitle, videoUrl) ==
    << ytDlpCommand
          \o " --format \"bestvideo[ext=mp4]+bestaudio[ext=m4a]/bestvideo[ext=mp4]+bestaudio[ext=m4a]/best[ext=mp4]/best\" --output \""
          \o outputTemplate(sanitizedTitle) \o "\" --no-warnings \"" \o videoUrl \o "\"",
       ytDlpCommand
          \o " --format \"bestvideo[ext=mp4]+bestaudio[ext=m4a]/best[ext=mp4]/best\" --recode-video mp4 --output \""
          \o outputTemplate(sanitizedTitle) \o "\" --no-warnings \"" \o videoUrl \o "\"",
       ytDlpCommand
          \o " --format \"best[ext=mp4]/best\" --output \""
          \o outputTemplate(sanitizedTitle) \o "\" --no-warnings \"" \o videoUrl \o "\"" >>

downloadStrategies(b, ytDlpCommand, sanitizedTitle, videoUrl) ==
    IF b = "current"
    THEN downloadStrategiesCurrent(ytDlpCommand, sanitizedTitle, videoUrl)
    ELSE downloadStrategiesLegacy(ytDlpCommand, sanitizedTitle, videoUrl)

\* the message of the error promisify(exec) rejects with
ExecError(cmd, stderr) == "Command failed: " \o cmd \o "\n" \o stderr

ToolNotFoundMessage(b) ==
    IF b = "current" THEN "yt-dlp nao encontrado"
    ELSE "yt-dlp nao encontrado em nenhuma localizacao"

\* JSON.parse of text that is not JSON
JsonSyntaxMessage == "Unexpected end of JSON input"

NoInfoMessage == "Nao foi possivel obter informacoes do video"

\* sanitizeFilename(undefined)
TypeErrorMessage == "Cannot read properties of undefined (reading 'replace')"

FileMissingMessage(b) ==
    IF b = "current" THEN "Arquivo nao foi criado"
    ELSE "Arquivo de video nao foi criado"

FileEmptyMessage(b) ==
    IF b = "current" THEN "Arquivo vazio ou corrompido"
    ELSE "Arquivo nao foi criado ou esta vazio"

InvalidUrlMessage == "URL invalida"

AllInstancesFailedMessage == "Todas as instancias Invidious falharam"

GenericMessage == "Erro interno do servidor"

\* the test downloadVideoForWeb makes before it reroutes to Invidious
\* a plausible slip: every failure of the primary path reroutes
IsBlockedError_Always(message) == TRUE

IsBlockedError(message) ==
    \/ Includes(message, "Sign in to confirm")
    \/ Includes(message, "bot")
    \/ Includes(message, "age")

\* the classification in the catch of the legacy downloadVideoForWeb
Classify(message) ==
    IF Includes(message, "Video unavailable") \/ Includes(message, "Private video")
        THEN "Video nao disponivel ou privado"
    ELSE IF Includes(message, "Sign in to confirm") \/ Includes(message, "age")
        THEN "Video requer confirmacao de idade"
    ELSE IF Includes(message, "This video is not available") \/ Includes(message, "removed")
        THEN "Este video nao esta disponivel"
    ELSE IF Includes(message, "network") \/ Includes(message, "timeout")
            \/ Includes(message, "Connection")
        THEN "Erro de rede durante o download"
    ELSE IF Includes(message, "format") \/ Includes(message, "No video formats")
        THEN "Formato de video nao suportado"
    ELSE IF Includes(message, "Command failed")
        THEN "Erro ao executar yt-dlp. Verifique se esta instalado"
    ELSE "Erro ao processar video"

instances ==
    << "https://yewtu.be",
       "https://invidious.nerdvpn.de",
       "https://inv.nadeko.net",
       "https://invidious.f5.si",
       "https://invidious.kavin.rocks",
       "https://invidious.io",
       "https://inv.riverside.rocks" >>

(***************************************************************************)
(* Format selection of downloadViaInvidious: Array.prototype.find returns  *)
(* the first stream that satisfies the test.                               *)
(***************************************************************************)
IsCappedMp4(f) ==
    /\ f.container = "mp4"
    /\ f.qualityLabel # ""
    /\ parseInt(f.qualityLabel) # NaN
    /\ parseInt(f.qualityLabel) <= 720

IsMp4(f) == f.container = "mp4"

\* find: the stream at the least of the indices that satisfy the test
FirstOf(streams, hits) ==
    IF hits = {} THEN NoStream
    ELSE streams[CHOOSE j \in hits : \A m \in hits : j <= m]

SelectFormat(data) ==
    LET streams == data.formatStreams
        capped == { j \in 1..Len(streams) : IsCappedMp4(streams[j]) }
        anyMp4 == { j \in 1..Len(streams) : IsMp4(streams[j]) }
    IN  IF ~data.hasStreams THEN NoStream
        ELSE IF capped # {} THEN FirstOf(streams, capped)
        ELSE FirstOf(streams, anyMp4)

(***************************************************************************)
(* State                                                                   *)
(***************************************************************************)
Requests == {"r1", "r2"}

VARIABLES
    build,      \* "current" or "legacy": which server of src/server.js runs
    nodeEnv,    \* process.env.NODE_ENV
    clients,    \* the requests issued in this run, one POST /download each
    files,      \* the downloads directory: name -> [size, mtime]
    clock,      \* Date.now(), also the source of modification times
    rq,         \* per request: position in the handler and its locals
    sanIn,      \* input of the sanitizeFilename harness
    sanOut,     \* its output
    sanDone,    \* whether the harness has run
    maxAgeEnv,  \* process.env.FILE_CLEANUP_MAX_AGE_HOURS, "" when unset
    sweep,      \* the last run of cleanupOldFiles (history)
    durIn,      \* input of the duration harness, in seconds
    durOut,     \* its outputs: the text of the primary and of the fallback path
    durDone,    \* whether the harness has run
    appFiles,   \* the files of __dirname, beside the downloads directory
    fileReq,    \* the last request to a file endpoint and what it did (history)
    currentFilename,    \* app.js: the global of that name, "" for null
    progressSimulation, \* app.js: the global of that name, 0 for null, else
                        \* the index in sims of the closure it refers to
    sims,       \* the closures simulateProgress() has created, in order
    dom,        \* the properties of the page's elements the script sets
    downloads,  \* the POST /download requests of the page still in flight
    fileClicks  \* the runs of the downloadFileBtn click handler, in order

pipeVars == <<build, nodeEnv, clients, files, clock, rq>>
sanVars == <<sanIn, sanOut, sanDone>>
sweepVars == <<maxAgeEnv, sweep>>
durVars == <<durIn, durOut, durDone>>
fileVars == <<appFiles, fileReq>>
clientVars == <<currentFilename, progressSimulation, sims, dom, downloads, fileClicks>>
auxVars == <<sanVars, sweepVars, durVars, fileVars, clientVars>>
vars == <<pipeVars, auxVars>>

\* an external call the request made, in order (history)
Event(op, n) == [op |-> op, n |-> n]

Resp(status, error, filename, downloadUrl, title, duration, quality, method) ==
    [status |-> status, error |-> error, filename |-> filename,
     downloadUrl |-> downloadUrl, title |-> title, duration |-> duration,
     quality |-> quality, method |-> method]

NoResp == Resp(0, "", "", "", "", "", "", "")

ErrorResp(status, error) == Resp(status, error, "", "", "", "", "", "")

IdleReq ==
    [ pc |-> "idle",
      body |-> Body(FALSE, "", FALSE, ""),
      url |-> "",
      format |-> "",
      k |-> 0,                 \* index into ytdlpOptions of the running probe
      ytDlpCommand |-> "",     \* "" is undefined
      infoKind |-> "",         \* how the metadata query ended (history)
      info |-> NoInfo,
      sanitizedTitle |-> "",
      i |-> 0,                 \* index of the running strategy, from 1
      wrote |-> 0,             \* files the running downloader has written
      inflight |-> 0,          \* execAsync calls started and not yet settled
      lastError |-> "",        \* "" is null
      runnerError |-> "",      \* what the strategy loop threw
      thrown |-> "",           \* what the primary path threw
      inst |-> 0,              \* index into instances
      data |-> NoData,
      stream |-> NoStream,
      log |-> <<>>,
      logged |-> "",           \* error message given to logger.error
      resp |-> NoResp ]

\* a directory entry; writer is the request that wrote it last (history)
FileStat(size, mtime, writer) == [size |-> size, mtime |-> mtime, writer |-> writer]

EmptyDir == [n \in {} |-> FileStat(0, 0, "")]

Put(dir, name, size, mtime, writer) ==
    [n \in DOMAIN dir \cup {name} |->
        IF n = name THEN FileStat(size, mtime, writer) ELSE dir[n]]

\* fs.unlinkSync
Remove(dir, name) == [n \in DOMAIN dir \ {name} |-> dir[n]]

\* what stands in __dirname beside downloads/
AppFiles == {"server.js", "package.json"}

\* the page's elements as index.html shows them before any click
DomLoaded ==
    [downloadBtnDisabled |-> FALSE, downloadFileBtnDisabled |-> FALSE,
     downloadSection |-> FALSE, videoInfo |-> FALSE, progressContainer |-> FALSE,
     result |-> "none", width |-> 0,
     progressText |-> "Preparando download...", statusText |-> "Aguardando..."]

\* the state of the page once app.js has run: the two globals are null, no
\* closure, request or handler exists
PageLoaded ==
    /\ currentFilename = ""
    /\ progressSimulation = 0
    /\ sims = <<>>
    /\ dom = DomLoaded
    /\ downloads = {}
    /\ fileClicks = <<>>

\* a request to /download-file or /cleanup-file: the path it built, the
\* status it answered and the path it read, measured or removed (<<>>: none)
FileReq(op, filename, path, status, acted) ==
    [op |-> op, filename |-> filename, path |-> path, status |-> status,
     acted |-> acted]

NoFileReq == FileReq("", "", <<>>, 0, <<>>)

\* what the duration harness holds before it runs
NoDurations == [primary |-> "", fallback |-> ""]

\* what the sweeper variable holds before any run
NoSweep ==
    [ran |-> FALSE, listed |-> EmptyDir, order |-> <<>>, failed |-> {},
     vanished |-> {}, examined |-> {}, logged |-> {}]

(***************************************************************************)
(* POST /download: the two ways the handler answers                        *)
(***************************************************************************)
\* a plausible slip: the handler answers with the error's own message
HandlerFail_Leak(q, message) ==
    [q EXCEPT !.pc = "done", !.logged = message,
              !.resp = ErrorResp(500, message)]

\* catch (downloadError): log it, answer 500 with the generic message
HandlerFail(q, message) ==
    [q EXCEPT !.pc = "done", !.logged = message,
              !.resp = ErrorResp(500, GenericMessage)]

\* downloadUrl: `/download-file/${encodeURIComponent(result.filename)}`
DownloadUrl(filename) == "/download-file/" \o encodeURIComponent(filename)

\* a plausible slip: the answer reports the format the client asked for
HandlerOk_EchoFormat(q, filename, title, duration, quality, method) ==
    [q EXCEPT !.pc = "done",
              !.resp = Resp(200, "", filename,
                            DownloadUrl(filename),
                            title, duration, q.format, method)]

\* res.json({success: true, data: {filename, downloadUrl, ...videoInfo}})
HandlerOk(q, filename, title, duration, quality, method) ==
    [q EXCEPT !.pc = "done",
              !.resp = Resp(200, "", filename,
                            DownloadUrl(filename),
                            title, duration, quality, method)]

(***************************************************************************)
(* downloadViaInvidious: entry and the step to the next instance           *)
(***************************************************************************)
StartInvidious(q) ==
    LET q1 == [q EXCEPT !.log = Append(@, Event("invidious", 0))] IN
    IF extractVideoId(q.url) = ""
    THEN HandlerFail(q1, InvalidUrlMessage)
    ELSE [q1 EXCEPT !.pc = "metaFetch", !.inst = 1,
                    !.log = Append(@, Event("fetchMeta", 1))]

\* a plausible slip: the failure of one instance ends the whole provider
NextInstance_GiveUp(q) ==
    HandlerFail([q EXCEPT !.data = NoData, !.stream = NoStream],
                AllInstancesFailedMessage)

\* a plausible slip: when the last instance has failed the primary path is
\* tried again
NextInstance_RetryPrimary(q) ==
    IF q.inst < Len(instances)
    THEN [q EXCEPT !.pc = "metaFetch", !.inst = @ + 1,
                   !.data = NoData, !.stream = NoStream,
                   !.log = Append(@, Event("fetchMeta", q.inst + 1))]
    ELSE IF nodeEnv = "production"
    THEN [q EXCEPT !.pc = "probe", !.k = 1, !.inflight = @ + 1,
                   !.data = NoData, !.stream = NoStream,
                   !.log = Append(@, Event("probe", 1))]
    ELSE [q EXCEPT !.pc = "info", !.inflight = @ + 1,
                   !.data = NoData, !.stream = NoStream,
                   !.log = Append(@, Event("info", 0))]

NextInstance(q) ==
    IF q.inst < Len(instances)
    THEN [q EXCEPT !.pc = "metaFetch", !.inst = @ + 1,
                   !.data = NoData, !.stream = NoStream,
                   !.log = Append(@, Event("fetchMeta", q.inst + 1))]
    ELSE HandlerFail([q EXCEPT !.data = NoData, !.stream = NoStream],
                     AllInstancesFailedMessage)

(***************************************************************************)
(* An error leaves the primary path.  current: the catch of                *)
(* downloadVideoForWeb reroutes or rethrows; legacy: the catch classifies  *)
(* and throws a new Error.                                                 *)
(***************************************************************************)
PrimaryThrow(q, message) ==
    LET q1 == [q EXCEPT !.thrown = message] IN
    IF build = "legacy" THEN HandlerFail(q1, Classify(message))
    ELSE IF IsBlockedError(message) THEN StartInvidious(q1)
    ELSE HandlerFail(q1, message)

(***************************************************************************)
(* POST /download, from the request to the first await                     *)
(***************************************************************************)
\* downloadViaYtDlp up to its first exec: the version probe in production,
\* the metadata query otherwise
StartPrimary(q) ==
    IF nodeEnv = "production"
    THEN [q EXCEPT !.pc = "probe", !.k = 1, !.inflight = @ + 1,
                   !.log = Append(@, Event("probe", 1))]
    ELSE [q EXCEPT !.pc = "info", !.ytDlpCommand = LocalYtDlp,
                   !.inflight = @ + 1,
                   !.log = Append(@, Event("info", 0))]

IsValidFormat(format) == format \in {"mp4", "webm", "mp3"}

\* the handler from the request to its first await, or to the 400 answer
ReceiveStep(body) ==
    LET format == IF body.hasFormat THEN body.format ELSE "mp4"
        q == [IdleReq EXCEPT !.body = body, !.url = body.url, !.format = format]
    IN  IF ~body.hasUrl \/ body.url = ""
            THEN [q EXCEPT !.pc = "done",
                           !.resp = ErrorResp(400, "URL e obrigatoria")]
        ELSE IF ~validateYouTubeUrl(body.url)
            THEN [q EXCEPT !.pc = "done",
                           !.resp = ErrorResp(400, "URL do YouTube invalida")]
        ELSE IF ~IsValidFormat(format)
            THEN [q EXCEPT !.pc = "done",
                           !.resp = ErrorResp(400, "Formato invalido. Use: mp4, webm ou mp3")]
        ELSE StartPrimary(q)

Receive(r, body) ==
    /\ r \in clients
    /\ rq[r].pc = "idle"
    /\ rq' = [rq EXCEPT ![r] = ReceiveStep(body)]
    /\ UNCHANGED <<build, nodeEnv, clients, files, clock, auxVars>>

(***************************************************************************)
(* The version probe of one candidate ends                                 *)
(***************************************************************************)
\* a plausible slip: the loop has no break, so the later candidates are
\* probed after a success and the last one that answers is used
ProbeStep_NoBreak(q0, ok) ==
    LET q == [q0 EXCEPT !.inflight = @ - 1]
        q1 == IF ok THEN [q EXCEPT !.ytDlpCommand = ytdlpOptions[q.k]] ELSE q
    IN  IF q.k < Len(ytdlpOptions)
            THEN [q1 EXCEPT !.k = @ + 1, !.inflight = @ + 1,
                            !.log = Append(@, Event("probe", q.k + 1))]
        ELSE IF q1.ytDlpCommand # ""
            THEN [q1 EXCEPT !.pc = "info", !.inflight = @ + 1,
                            !.log = Append(@, Event("info", 0))]
        ELSE PrimaryThrow(q1, ToolNotFoundMessage(build))

\* the probe of candidate q0.k has ended: break, continue, or the throw
ProbeStep(q0, ok) ==
    LET q == [q0 EXCEPT !.inflight = @ - 1] IN
    IF ok
        THEN [q EXCEPT !.pc = "info", !.ytDlpCommand = ytdlpOptions[q.k],
                       !.inflight = @ + 1,
                       !.log = Append(@, Event("info", 0))]
    ELSE IF q.k < Len(ytdlpOptions)
        THEN [q EXCEPT !.k = @ + 1, !.inflight = @ + 1,
                       !.log = Append(@, Event("probe", q.k + 1))]
    ELSE PrimaryThrow(q, ToolNotFoundMessage(build))

ProbeDone(r, ok) ==
    /\ rq[r].pc = "probe"
    /\ rq' = [rq EXCEPT ![r] = ProbeStep(rq[r], ok)]
    /\ UNCHANGED <<build, nodeEnv, clients, files, clock, auxVars>>

(***************************************************************************)
(* The metadata query ends                                                 *)
(***************************************************************************)
\* a plausible slip: the strategies are launched together rather than one
\* awaited after the other, so strategy i runs beside its successor
StartStrategy_Together(q, i) ==
    [q EXCEPT !.pc = "strategy", !.i = i, !.wrote = 0, !.inflight = @ + 2,
              !.log = Append(@, Event("strategy", i))]

\* await execAsync(downloadStrategies[i], ...): the call is made
StartStrategy(q, i) ==
    [q EXCEPT !.pc = "strategy", !.i = i, !.wrote = 0, !.inflight = @ + 1,
              !.log = Append(@, Event("strategy", i))]

\* sanitizeFilename(info.title) || `video_${info.id}_${Date.now()}`; the
\* tool reports the id of the video the URL names
SanitizedTitle(info, url, now) ==
    IF sanitizeFilename(info.title) # "" THEN sanitizeFilename(info.title)
    ELSE "video_" \o extractVideoId(url) \o "_" \o ToString(now)

\* a plausible slip: the download goes on without the metadata
InfoFailed_Continue(q, message) ==
    StartStrategy([q EXCEPT !.sanitizedTitle = "video"], 1)

InfoFailed(q, message) == PrimaryThrow(q, message)

\* the metadata query has ended at time now: the throw, or the first
\* strategy
InfoStep(q0, out, now) ==
    LET q == [q0 EXCEPT !.infoKind = out.kind, !.inflight = @ - 1] IN
    IF out.kind = "execFail"
        THEN InfoFailed(q, ExecError(infoCommand(q.ytDlpCommand, q.url), out.stderr))
    ELSE IF out.kind = "garbage" THEN InfoFailed(q, JsonSyntaxMessage)
    ELSE IF out.kind = "null" THEN InfoFailed(q, NoInfoMessage)
    ELSE IF ~out.info.hasTitle THEN PrimaryThrow(q, TypeErrorMessage)
    ELSE StartStrategy(
            [q EXCEPT !.info = out.info,
                      !.sanitizedTitle = SanitizedTitle(out.info, q.url, now)],
            1)

InfoDone(r, out) ==
    /\ rq[r].pc = "info"
    /\ rq' = [rq EXCEPT ![r] = InfoStep(rq[r], out, clock)]
    /\ UNCHANGED <<build, nodeEnv, clients, files, clock, auxVars>>

(***************************************************************************)
(* The external downloader, while a strategy runs, writes a file named by  *)
(* the output template                                                     *)
(***************************************************************************)
ToolWrite(r, ext, size) ==
    /\ rq[r].pc = "strategy"
    /\ rq[r].wrote < MaxToolWrites
    /\ files' = Put(files, rq[r].sanitizedTitle \o "." \o ext, size, clock, r)
    /\ clock' = clock + 1
    /\ rq' = [rq EXCEPT ![r].wrote = @ + 1]
    /\ UNCHANGED <<build, nodeEnv, clients, auxVars>>

(***************************************************************************)
(* A strategy ends: the loop, then locating and verifying the file         *)
(***************************************************************************)
\* a plausible slip: only the file named after the title itself is taken
Matches_Exact(dir, prefix) == { n \in DOMAIN dir : n = prefix \o ".mp4" }

Matches(dir, prefix) == { n \in DOMAIN dir : StartsWith(n, prefix) }

\* a plausible slip: the comparator of the sort is written the other way
Newest_Oldest(dir, prefix) ==
    { n \in Matches(dir, prefix) :
        \A m \in Matches(dir, prefix) : dir[n].mtime <= dir[m].mtime }

\* files[0] after the sort by modification time, descending
Newest(dir, prefix) ==
    { n \in Matches(dir, prefix) :
        \A m \in Matches(dir, prefix) : dir[n].mtime >= dir[m].mtime }

\* a plausible slip: the size of the located file is not looked at
IsEmptyFile_Unchecked(dir, name) == name \notin DOMAIN dir

IsEmptyFile(dir, name) == name \notin DOMAIN dir \/ dir[name].size = 0

Quality(info) == IF info.height # 0 THEN ToString(info.height) \o "p" ELSE "N/A"

Method(b) == IF b = "current" THEN "yt-dlp" ELSE ""

\* a plausible slip: the error of the first failed strategy is kept
KeepError_First(lastError, error) == IF lastError = "" THEN error ELSE lastError

\* catch (error) { lastError = error }
KeepError(lastError, error) == error

\* a failed attempt: the next strategy (current: after the 2 s wait), or
\* the throw of lastError when it was the last one
\* a plausible slip: a failure jumps to the last strategy
StrategyFailed_SkipToLast(q, error, n) ==
    LET qf == [q EXCEPT !.lastError = KeepError(q.lastError, error)] IN
    IF q.i < n
    THEN IF build = "current"
         THEN [qf EXCEPT !.pc = "backoff", !.i = n - 1,
                         !.log = Append(@, Event("wait", q.i))]
         ELSE StartStrategy(qf, n)
    ELSE PrimaryThrow([qf EXCEPT !.runnerError = qf.lastError], qf.lastError)

StrategyFailed(q, error, n) ==
    LET qf == [q EXCEPT !.lastError = KeepError(q.lastError, error)] IN
    IF q.i < n
    THEN IF build = "current"
         THEN [qf EXCEPT !.pc = "backoff",
                         !.log = Append(@, Event("wait", q.i))]
         ELSE StartStrategy(qf, q.i + 1)
    ELSE PrimaryThrow([qf EXCEPT !.runnerError = qf.lastError], qf.lastError)

\* the files the locator may return: files[0] of the sorted matches
Located(dir, prefix) == IF Matches(dir, prefix) = {} THEN {""} ELSE Newest(dir, prefix)

\* a strategy has ended with the directory as dir: the next attempt or the
\* throw of lastError; on success the located file, verified, or the throw
StrategyStep(q0, dir, ok, stderr, downloadedFile) ==
    LET q == [q0 EXCEPT !.inflight = @ - 1]
        strategies == downloadStrategies(build, q.ytDlpCommand, q.sanitizedTitle, q.url)
    IN  IF ~ok
            THEN StrategyFailed(q, ExecError(strategies[q.i], stderr), Len(strategies))
        ELSE IF Matches(dir, q.sanitizedTitle) = {}
            THEN PrimaryThrow(q, FileMissingMessage(build))
        ELSE IF IsEmptyFile(dir, downloadedFile)
            THEN PrimaryThrow(q, FileEmptyMessage(build))
        ELSE HandlerOk(q, downloadedFile, q.info.title,
                       durationString(q.info.duration),
                       Quality(q.info), Method(build))

\* a plausible slip: a failed attempt removes what it wrote before the next
\* one
StrategyDone_Cleanup(r, ok, stderr) ==
    /\ rq[r].pc = "strategy"
    /\ ok => stderr = AnyStdErr
    /\ \E downloadedFile \in Located(files, rq[r].sanitizedTitle) :
          rq' = [rq EXCEPT ![r] = StrategyStep(rq[r], files, ok, stderr, downloadedFile)]
    /\ files' = IF ok THEN files
                ELSE [n \in DOMAIN files \ Matches(files, rq[r].sanitizedTitle) |-> files[n]]
    /\ UNCHANGED <<build, nodeEnv, clients, clock, auxVars>>

StrategyDone(r, ok, stderr) ==
    /\ rq[r].pc = "strategy"
    /\ ok => stderr = AnyStdErr
    /\ \E downloadedFile \in Located(files, rq[r].sanitizedTitle) :
          rq' = [rq EXCEPT ![r] = StrategyStep(rq[r], files, ok, stderr, downloadedFile)]
    /\ UNCHANGED <<build, nodeEnv, clients, files, clock, auxVars>>

\* the 2 s timer before strategy i > 0 fires
BackoffDone(r) ==
    /\ rq[r].pc = "backoff"
    /\ rq' = [rq EXCEPT ![r] = StartStrategy(rq[r], rq[r].i + 1)]
    /\ UNCHANGED <<build, nodeEnv, clients, files, clock, auxVars>>

(***************************************************************************)
(* downloadViaInvidious: the metadata fetch of an instance ends            *)
(***************************************************************************)
MetaFetchStep(q, out) ==
    IF out.kind # "data" THEN NextInstance(q)
    ELSE IF SelectFormat(out.data) = NoStream THEN NextInstance(q)
    ELSE [q EXCEPT !.pc = "videoFetch", !.data = out.data,
                   !.stream = SelectFormat(out.data)]

MetaFetchDone(r, out) ==
    /\ rq[r].pc = "metaFetch"
    /\ rq' = [rq EXCEPT ![r] = MetaFetchStep(rq[r], out)]
    /\ UNCHANGED <<build, nodeEnv, clients, files, clock, auxVars>>

(***************************************************************************)
(* downloadViaInvidious: the fetch of the stream ends; the bytes are       *)
(* written and the result returned                                         *)
(***************************************************************************)
\* `${sanitizeFilename(data.title)}.mp4`
InvidiousFilename(data) == sanitizeFilename(data.title) \o ".mp4"

InvidiousQuality(stream) ==
    IF stream.qualityLabel # "" THEN stream.qualityLabel ELSE "N/A"

\* whether the fetch of the stream ends in writeFileSync
VideoWritten(q, out) == out.kind = "ok" /\ q.data.hasTitle

\* the result, or (not OK, or an exception, sanitizeFilename(undefined)
\* too) the next instance
VideoFetchStep(q, out) ==
    IF VideoWritten(q, out)
    THEN HandlerOk(q, InvidiousFilename(q.data), q.data.title,
                   formatDuration(q.data.lengthSeconds),
                   InvidiousQuality(q.stream), "Invidious")
    ELSE NextInstance(q)

VideoFetchDone(r, out) ==
    /\ rq[r].pc = "videoFetch"
    /\ rq' = [rq EXCEPT ![r] = VideoFetchStep(rq[r], out)]
    /\ IF VideoWritten(rq[r], out)
       THEN /\ files' = Put(files, InvidiousFilename(rq[r].data), out.bytes, clock, r)
            /\ clock' = clock + 1
       ELSE UNCHANGED <<files, clock>>
    /\ UNCHANGED <<build, nodeEnv, clients, auxVars>>

(***************************************************************************)
(* The server                                                              *)
(***************************************************************************)
Init ==
    /\ build \in {"current", "legacy"}
    /\ nodeEnv \in {"production", "development"}
    /\ clients = {"r1"}
    /\ files = EmptyDir
    /\ clock = 1
    /\ rq = [r \in Requests |-> IdleReq]
    /\ sanIn = ""
    /\ sanOut = ""
    /\ sanDone = FALSE
    /\ maxAgeEnv = ""
    /\ sweep = NoSweep
    /\ durIn = 0
    /\ durOut = NoDurations
    /\ durDone = FALSE
    /\ appFiles = AppFiles
    /\ fileReq = NoFileReq
    /\ PageLoaded

Next ==
    \/ \E r \in Requests, body \in Bodies : Receive(r, body)
    \/ \E r \in Requests, ok \in BOOLEAN : ProbeDone(r, ok)
    \/ \E r \in Requests, out \in InfoOutcomes : InfoDone(r, out)
    \/ \E r \in Requests, ext \in ToolExts, size \in FileSizes : ToolWrite(r, ext, size)
    \/ \E r \in Requests, ok \in BOOLEAN, stderr \in StdErrs : StrategyDone(r, ok, stderr)
    \/ \E r \in Requests : BackoffDone(r)
    \/ \E r \in Requests, out \in MetaOutcomes : MetaFetchDone(r, out)
    \/ \E r \in Requests, out \in VideoOutcomes : VideoFetchDone(r, out)

Spec == Init /\ [][Next]_vars

\* Every exec is given a timeout (5 s, 30 s, 300 s) and the backoff is a 2 s
\* timer, so a probe, a metadata query, a strategy and a wait end.  The
\* fetch calls of downloadViaInvidious get no bound the runtime honours (the
\* timeout option is not one of fetch's, the second call passes none), so
\* nothing says they end.
ExecFairness ==
    /\ WF_vars(\E r \in Requests, ok \in BOOLEAN : ProbeDone(r, ok))
    /\ WF_vars(\E r \in Requests, out \in InfoOutcomes : InfoDone(r, out))
    /\ WF_vars(\E r \in Requests, ok \in BOOLEAN, stderr \in StdErrs : StrategyDone(r, ok, stderr))
    /\ WF_vars(\E r \in Requests : BackoffDone(r))

LiveSpec == Init /\ [][Next]_vars /\ ExecFairness

(***************************************************************************)
(* sanitizeFilename on every string of at most MaxLen characters           *)
(***************************************************************************)
MaxLen == 3

SanAlphabet == IllegalChars \cup WhitespaceChars \cup {"a", "."}

RECURSIVE StringsUpTo(_)
StringsUpTo(n) ==
    IF n = 0 THEN {""}
    ELSE StringsUpTo(n - 1) \cup
         { s \o c : s \in { t \in StringsUpTo(n - 1) : Len(t) = n - 1 }, c \in SanAlphabet }

SanInit ==
    /\ build = "current"
    /\ nodeEnv = "development"
    /\ clients = {}
    /\ files = EmptyDir
    /\ clock = 1
    /\ rq = [r \in Requests |-> IdleReq]
    /\ sanIn \in StringsUpTo(MaxLen)
    /\ sanOut = ""
    /\ sanDone = FALSE
    /\ maxAgeEnv = ""
    /\ sweep = NoSweep
    /\ durIn = 0
    /\ durOut = NoDurations
    /\ durDone = FALSE
    /\ appFiles = AppFiles
    /\ fileReq = NoFileReq
    /\ PageLoaded

Sanitize ==
    /\ ~sanDone
    /\ sanOut' = sanitizeFilename(sanIn)
    /\ sanDone' = TRUE
    /\ UNCHANGED <<sanIn, pipeVars, sweepVars, durVars, fileVars, clientVars>>

SanNext == Sanitize

SanSpec == SanInit /\ [][SanNext]_vars

(***************************************************************************)
(* Two requests served by one process in production, their steps           *)
(* interleaved at every await; the secondary source is unreachable.        *)
(***************************************************************************)
ConcBodies == { Body(TRUE, UrlWatch, FALSE, "") }

ConcInfoOutcomes ==
    [kind : {"json"}, stderr : {""},
     info : { VideoInfo(TRUE, "foo", 125, 720), VideoInfo(TRUE, "foo bar", 59, 0) }]

ConcStdErrs == { AnyStdErr }

ConcMetaOutcomes == [kind : {"throw"}, data : {NoData}]

ConcInit ==
    /\ build = "current"
    /\ nodeEnv = "production"
    /\ clients = Requests
    /\ files = EmptyDir
    /\ clock = 1
    /\ rq = [r \in Requests |-> IdleReq]
    /\ sanIn = ""
    /\ sanOut = ""
    /\ sanDone = FALSE
    /\ maxAgeEnv = ""
    /\ sweep = NoSweep
    /\ durIn = 0
    /\ durOut = NoDurations
    /\ durDone = FALSE
    /\ appFiles = AppFiles
    /\ fileReq = NoFileReq
    /\ PageLoaded

ConcNext ==
    \/ \E r \in Requests, body \in ConcBodies : Receive(r, body)
    \/ \E r \in Requests, ok \in BOOLEAN : ProbeDone(r, ok)
    \/ \E r \in Requests, out \in ConcInfoOutcomes : InfoDone(r, out)
    \/ \E r \in Requests : ToolWrite(r, "mp4", 1024)
    \/ \E r \in Requests, ok \in BOOLEAN, stderr \in ConcStdErrs : StrategyDone(r, ok, stderr)
    \/ \E r \in Requests : BackoffDone(r)
    \/ \E r \in Requests, out \in ConcMetaOutcomes : MetaFetchDone(r, out)

ConcSpec == ConcInit /\ [][ConcNext]_vars

(***************************************************************************)
(* cleanupOldFiles, on the directories and settings below.  Times are in   *)
(* milliseconds.                                                           *)
(***************************************************************************)
\* maxAge * 60 * 60 * 1000 for maxAge = 1
MsPerHour == 60 * 60 * 1000

\* parseInt(process.env.FILE_CLEANUP_MAX_AGE_HOURS) || 24: NaN and 0 are falsy
MaxAgeHours(env) ==
    IF parseInt(env) = NaN \/ parseInt(env) = 0 THEN 24 ELSE parseInt(env)

MaxAgeMs(env) == MaxAgeHours(env) * MsPerHour

\* age > maxAgeMs
IsExpired(stat, now, env) == now - stat.mtime > MaxAgeMs(env)

\* a plausible slip: the unlink has no try of its own, so its failure ends
\* the loop in the outer catch
RECURSIVE SweepFrom_NoInnerTry(_, _, _, _, _, _)
SweepFrom_NoInnerTry(dir, listing, now, env, failing, vanished) ==
    IF listing = <<>> THEN dir
    ELSE IF Head(listing) \in vanished THEN dir
    ELSE IF IsExpired(dir[Head(listing)], now, env)
        THEN IF Head(listing) \in failing THEN dir
             ELSE SweepFrom_NoInnerTry(Remove(dir, Head(listing)), Tail(listing),
                                       now, env, failing, vanished)
    ELSE SweepFrom_NoInnerTry(dir, Tail(listing), now, env, failing, vanished)

\* files.forEach over the listing: statSync of an entry that is gone throws
\* and ends the loop in the outer catch; an unlinkSync that throws is caught
\* per file
RECURSIVE SweepFrom(_, _, _, _, _, _)
SweepFrom(dir, listing, now, env, failing, vanished) ==
    IF listing = <<>> THEN dir
    ELSE IF Head(listing) \in vanished THEN dir
    ELSE IF IsExpired(dir[Head(listing)], now, env) /\ Head(listing) \notin failing
        THEN SweepFrom(Remove(dir, Head(listing)), Tail(listing), now, env, failing, vanished)
    ELSE SweepFrom(dir, Tail(listing), now, env, failing, vanished)

\* the entries whose statSync returned: those before the first one that is
\* gone
RECURSIVE Examined(_, _)
Examined(listing, vanished) ==
    IF listing = <<>> THEN {}
    ELSE IF Head(listing) \in vanished THEN {}
    ELSE {Head(listing)} \cup Examined(Tail(listing), vanished)

\* the orders in which readdirSync may list a set of names
Listings(names) ==
    { l \in [1..Cardinality(names) -> names] :
        \A a, b \in 1..Cardinality(names) : a # b => l[a] # l[b] }

\* one run: failing are the expired entries whose unlink fails, vanished the
\* entries another process removes between the listing and their statSync
cleanupOldFiles(listing, failing, vanished) ==
    /\ ~sweep.ran
    /\ failing \cap vanished = {}
    /\ \A n \in failing : IsExpired(files[n], clock, maxAgeEnv)
    /\ LET left == SweepFrom(files, listing, clock, maxAgeEnv, failing, vanished)
       IN  files' = [n \in DOMAIN left \ vanished |-> left[n]]
    /\ sweep' = [ran |-> TRUE, listed |-> files, order |-> listing,
                 failed |-> failing, vanished |-> vanished,
                 examined |-> Examined(listing, vanished),
                 logged |-> failing \cap Examined(listing, vanished)]
    /\ UNCHANGED <<build, nodeEnv, clients, clock, rq, sanVars, maxAgeEnv, durVars, fileVars, clientVars>>

\* Date.now() of the run: 100 hours after the epoch of the model
SweepNow == 100 * MsPerHour

SweepAges == {MsPerHour, 24 * MsPerHour, 24 * MsPerHour + 1, 25 * MsPerHour, 48 * MsPerHour}

SweepNames == {"a.mp4", "b.mp4", "c.part"}

SweepDirs ==
    UNION { [names -> { FileStat(1024, SweepNow - age, "") : age \in SweepAges }] :
              names \in SUBSET SweepNames }

SweepEnvs == {"", "0", "1", "48"}

SweepInit ==
    /\ build \in {"current", "legacy"}
    /\ nodeEnv = "production"
    /\ clients = {}
    /\ files \in SweepDirs
    /\ clock = SweepNow
    /\ rq = [r \in Requests |-> IdleReq]
    /\ sanIn = ""
    /\ sanOut = ""
    /\ sanDone = FALSE
    /\ maxAgeEnv \in SweepEnvs
    /\ sweep = NoSweep
    /\ durIn = 0
    /\ durOut = NoDurations
    /\ durDone = FALSE
    /\ appFiles = AppFiles
    /\ fileReq = NoFileReq
    /\ PageLoaded

SweepNext ==
    \E listing \in Listings(DOMAIN files), failing, vanished \in SUBSET DOMAIN files :
        cleanupOldFiles(listing, failing, vanished)

SweepSpec == SweepInit /\ [][SweepNext]_vars

(***************************************************************************)
(* The two duration formatters on every number of seconds up to MaxSeconds *)
(***************************************************************************)
MaxSeconds == 3700

DurInit ==
    /\ build = "current"
    /\ nodeEnv = "development"
    /\ clients = {}
    /\ files = EmptyDir
    /\ clock = 1
    /\ rq = [r \in Requests |-> IdleReq]
    /\ sanIn = ""
    /\ sanOut = ""
    /\ sanDone = FALSE
    /\ maxAgeEnv = ""
    /\ sweep = NoSweep
    /\ durIn \in 0..MaxSeconds
    /\ durOut = NoDurations
    /\ durDone = FALSE
    /\ appFiles = AppFiles
    /\ fileReq = NoFileReq
    /\ PageLoaded

FormatBoth ==
    /\ ~durDone
    /\ durOut' = [primary |-> durationString(durIn), fallback |-> formatDuration(durIn)]
    /\ durDone' = TRUE
    /\ UNCHANGED <<durIn, pipeVars, sanVars, sweepVars, fileVars, clientVars>>

DurNext == FormatBoth

DurSpec == DurInit /\ [][DurNext]_vars

(***************************************************************************)
(* The file endpoints: HEAD and GET /download-file/:filename and           *)
(* POST /cleanup-file                                                      *)
(***************************************************************************)
\* what a path names on the disk: a file of downloads/, a file of
\* __dirname, one of the two directories or one above them, or nothing
Kind(path) ==
    IF Len(path) = 3 /\ SubSeq(path, 1, 2) = DownloadsPath /\ path[3] \in DOMAIN files
        THEN "file"
    ELSE IF Len(path) = 2 /\ SubSeq(path, 1, 1) = AppDir /\ path[2] \in appFiles
        THEN "file"
    ELSE IF path \in {<<>>, AppDir, DownloadsPath} THEN "dir"
    ELSE "none"

\* fs.unlinkSync(filePath)
Unlink(path) ==
    IF Len(path) = 3
    THEN files' = Remove(files, path[3]) /\ UNCHANGED appFiles
    ELSE appFiles' = appFiles \ {path[2]} /\ UNCHANGED files

\* the router decodes the segment into req.params.filename (a malformed one
\* is answered 400 before the handler runs); the handler decodes it again
HeadAnswer(raw) ==
    IF ~IsWellEncoded(raw) THEN FileReq("head", raw, <<>>, 400, <<>>)
    ELSE IF ~IsWellEncoded(decodeURIComponent(raw))
        THEN FileReq("head", raw, <<>>, 500, <<>>)
    ELSE LET filename == decodeURIComponent(decodeURIComponent(raw))
             filePath == PathJoin(DownloadsPath, filename)
         IN  IF Kind(filePath) = "none"
             THEN FileReq("head", filename, filePath, 404, <<>>)
             ELSE FileReq("head", filename, filePath, 200, filePath)

HeadDownloadFile(raw) ==
    /\ fileReq' = HeadAnswer(raw)
    /\ UNCHANGED <<pipeVars, sanVars, sweepVars, durVars, appFiles>>

GetAnswer(raw) ==
    IF ~IsWellEncoded(raw) THEN FileReq("get", raw, <<>>, 400, <<>>)
    ELSE IF ~IsWellEncoded(decodeURIComponent(raw))
        THEN FileReq("get", raw, <<>>, 500, <<>>)
    ELSE LET filename == decodeURIComponent(decodeURIComponent(raw))
             filePath == PathJoin(DownloadsPath, filename)
         IN  IF Kind(filePath) = "none"
                 THEN FileReq("get", filename, filePath, 404, <<>>)
             ELSE IF Kind(filePath) = "dir"  \* the read stream fails
                 THEN FileReq("get", filename, filePath, 500, <<>>)
             ELSE FileReq("get", filename, filePath, 200, filePath)

GetDownloadFile(raw) ==
    /\ fileReq' = GetAnswer(raw)
    /\ UNCHANGED <<pipeVars, sanVars, sweepVars, durVars, appFiles>>

\* what POST /cleanup-file answers; acted is the path it unlinks
CleanupAnswer(hasFilename, filename, unlinkThrows) ==
    LET filePath == PathJoin(DownloadsPath, filename) IN
    IF ~hasFilename \/ filename = ""
        THEN FileReq("cleanup", filename, <<>>, 400, <<>>)
    ELSE IF Kind(filePath) = "none"
        THEN FileReq("cleanup", filename, filePath, 200, <<>>)
    ELSE IF Kind(filePath) = "dir" \/ unlinkThrows
        THEN FileReq("cleanup", filename, filePath, 500, <<>>)
    ELSE FileReq("cleanup", filename, filePath, 200, filePath)

\* the effect of the handler on the disk
CleanupDisk(answer) ==
    IF answer.acted = <<>> THEN UNCHANGED <<files, appFiles>>
    ELSE Unlink(answer.acted)

CleanupFile(hasFilename, filename, unlinkThrows) ==
    /\ fileReq' = CleanupAnswer(hasFilename, filename, unlinkThrows)
    /\ CleanupDisk(CleanupAnswer(hasFilename, filename, unlinkThrows))
    /\ UNCHANGED <<build, nodeEnv, clients, clock, rq, sanVars, sweepVars, durVars>>

\* names the pipeline can give a file: a sanitized title and an extension
FileNames == {"a.mp4", "b.mp4", "a b.mp4", "a%20b.mp4", "50% #1&2.mp4"}

\* the segment the route '/download-file/:filename' takes from a request path
RouteParam(path) == Drop(path, Len("/download-file/"))

\* the :filename segments a client sends, as they stand in the request line:
\* those of the download URLs the server hands out, and others
RawParams ==
    { RouteParam(DownloadUrl(n)) : n \in FileNames } \cup
    {"a.mp4", "b.mp4", "none.mp4", "a%20b.mp4", "..%2Fserver.js",
     "..%252Fserver.js", "%2E%2E%2Fpackage.json", "x%2F..%2Fa.mp4", "%2Fa.mp4",
     "..", "%zz", "%25zz"}

\* the filename fields a client sends in the body of POST /cleanup-file
CleanupNames ==
    FileNames \cup
    {"", "none.mp4", "./a.mp4", "x/../b.mp4", "/a.mp4",
     "../server.js", "../downloads/a.mp4", "../../app/package.json", ".."}

FileDirs ==
    { [n \in names |-> FileStat(1024, 1, "")] : names \in SUBSET FileNames }

FileInit ==
    /\ build \in {"current", "legacy"}
    /\ nodeEnv = "production"
    /\ clients = {}
    /\ files \in FileDirs
    /\ clock = 2
    /\ rq = [r \in Requests |-> IdleReq]
    /\ sanIn = ""
    /\ sanOut = ""
    /\ sanDone = FALSE
    /\ maxAgeEnv = ""
    /\ sweep = NoSweep
    /\ durIn = 0
    /\ durOut = NoDurations
    /\ durDone = FALSE
    /\ appFiles = AppFiles
    /\ fileReq = NoFileReq
    /\ PageLoaded

FileNext ==
    \/ \E raw \in RawParams : HeadDownloadFile(raw) /\ UNCHANGED clientVars
    \/ \E raw \in RawParams : GetDownloadFile(raw) /\ UNCHANGED clientVars
    \/ \E hasFilename, unlinkThrows \in BOOLEAN, filename \in CleanupNames :
          CleanupFile(hasFilename, filename, unlinkThrows) /\ UNCHANGED clientVars

FileSpec == FileInit /\ [][FileNext]_vars

(***************************************************************************)
(* Two requests for the same URL with different formats, run side by side  *)
(* against an environment that answers both alike: each step hands the     *)
(* same outcome of the same external call to the two handlers.             *)
(***************************************************************************)
Twin(q1, q2) == [r \in Requests |-> IF r = "r1" THEN q1 ELSE q2]

BothAt(pc) == rq["r1"].pc = pc /\ rq["r2"].pc = pc

\* the format fields of the two bodies: absent (mp4) or an accepted value,
\* and different
FormatPairs ==
    { <<<<FALSE, "">>, <<TRUE, "webm">>>>,
      <<<<FALSE, "">>, <<TRUE, "mp3">>>>,
      <<<<TRUE, "mp3">>, <<TRUE, "webm">>>> }

TwinReceive(url, f1, f2) ==
    /\ BothAt("idle")
    /\ rq' = Twin(ReceiveStep(Body(TRUE, url, f1[1], f1[2])),
                  ReceiveStep(Body(TRUE, url, f2[1], f2[2])))
    /\ UNCHANGED <<build, nodeEnv, clients, files, clock, auxVars>>

TwinProbeDone(ok) ==
    /\ BothAt("probe")
    /\ rq' = Twin(ProbeStep(rq["r1"], ok), ProbeStep(rq["r2"], ok))
    /\ UNCHANGED <<build, nodeEnv, clients, files, clock, auxVars>>

TwinInfoDone(out) ==
    /\ BothAt("info")
    /\ rq' = Twin(InfoStep(rq["r1"], out, clock), InfoStep(rq["r2"], out, clock))
    /\ UNCHANGED <<build, nodeEnv, clients, files, clock, auxVars>>

TwinToolWrite(ext, size) ==
    /\ BothAt("strategy")
    /\ rq["r1"].wrote < MaxToolWrites
    /\ files' = Put(Put(files, rq["r1"].sanitizedTitle \o "." \o ext, size, clock, "r1"),
                    rq["r2"].sanitizedTitle \o "." \o ext, size, clock, "r2")
    /\ clock' = clock + 1
    /\ rq' = [rq EXCEPT !["r1"].wrote = @ + 1, !["r2"].wrote = @ + 1]
    /\ UNCHANGED <<build, nodeEnv, clients, auxVars>>

TwinStrategyDone(ok, stderr) ==
    /\ BothAt("strategy")
    /\ ok => stderr = AnyStdErr
    /\ \E d1 \in Located(files, rq["r1"].sanitizedTitle),
          d2 \in Located(files, rq["r2"].sanitizedTitle) :
          rq' = Twin(StrategyStep(rq["r1"], files, ok, stderr, d1),
                     StrategyStep(rq["r2"], files, ok, stderr, d2))
    /\ UNCHANGED <<build, nodeEnv, clients, files, clock, auxVars>>

TwinBackoffDone ==
    /\ BothAt("backoff")
    /\ rq' = Twin(StartStrategy(rq["r1"], rq["r1"].i + 1),
                  StartStrategy(rq["r2"], rq["r2"].i + 1))
    /\ UNCHANGED <<build, nodeEnv, clients, files, clock, auxVars>>

TwinMetaFetchDone(out) ==
    /\ BothAt("metaFetch")
    /\ rq' = Twin(MetaFetchStep(rq["r1"], out), MetaFetchStep(rq["r2"], out))
    /\ UNCHANGED <<build, nodeEnv, clients, files, clock, auxVars>>

TwinVideoFetchDone(out) ==
    /\ BothAt("videoFetch")
    /\ rq' = Twin(VideoFetchStep(rq["r1"], out), VideoFetchStep(rq["r2"], out))
    /\ IF VideoWritten(rq["r1"], out)
       THEN /\ files' = Put(files, InvidiousFilename(rq["r1"].data), out.bytes, clock, "r2")
            /\ clock' = clock + 1
       ELSE UNCHANGED <<files, clock>>
    /\ UNCHANGED <<build, nodeEnv, clients, auxVars>>

FmtInit ==
    /\ build \in {"current", "legacy"}
    /\ nodeEnv \in {"production", "development"}
    /\ clients = Requests
    /\ files = EmptyDir
    /\ clock = 1
    /\ rq = [r \in Requests |-> IdleReq]
    /\ sanIn = ""
    /\ sanOut = ""
    /\ sanDone = FALSE
    /\ maxAgeEnv = ""
    /\ sweep = NoSweep
    /\ durIn = 0
    /\ durOut = NoDurations
    /\ durDone = FALSE
    /\ appFiles = AppFiles
    /\ fileReq = NoFileReq
    /\ PageLoaded

FmtNext ==
    \/ \E p \in FormatPairs : TwinReceive(UrlWatch, p[1], p[2])
    \/ \E ok \in BOOLEAN : TwinProbeDone(ok)
    \/ \E out \in InfoOutcomes : TwinInfoDone(out)
    \/ \E ext \in ToolExts, size \in FileSizes : TwinToolWrite(ext, size)
    \/ \E ok \in BOOLEAN, stderr \in StdErrs : TwinStrategyDone(ok, stderr)
    \/ TwinBackoffDone
    \/ \E out \in MetaOutcomes : TwinMetaFetchDone(out)
    \/ \E out \in VideoOutcomes : TwinVideoFetchDone(out)

FmtSpec == FmtInit /\ [][FmtNext]_vars

(***************************************************************************)
(* The browser page, src/public/app.js: the click handlers of downloadBtn  *)
(* and downloadFileBtn, the timers they set and the progress simulation,   *)
(* against a server that answers POST /download with a file or an error.   *)
(***************************************************************************)
\* the clicks of the user on the two buttons that start a handler
MaxClicks == 3

\* progress is counted in eighths of a percent: the incrementSize of each
\* of the six stages is a whole number of them
Unit == 8

\* the period of the stage interval, in milliseconds
IntervalMs == 50

stages ==
    << [name |-> "Verificando URL...", status |-> "Analisando link do YouTube",
        duration |-> 1500, progressRange |-> <<0, 15>>],
       [name |-> "Obtendo informacoes do video...", status |-> "Coletando metadados do video",
        duration |-> 2000, progressRange |-> <<15, 30>>],
       [name |-> "Baixando video...", status |-> "Fazendo download da qualidade HD",
        duration |-> 4000, progressRange |-> <<30, 70>>],
       [name |-> "Baixando audio...", status |-> "Extraindo faixa de audio de alta qualidade",
        duration |-> 3000, progressRange |-> <<70, 85>>],
       [name |-> "Mesclando arquivos...", status |-> "Combinando video e audio usando FFmpeg",
        duration |-> 2000, progressRange |-> <<85, 95>>],
       [name |-> "Finalizando...", status |-> "Preparando arquivo para download",
        duration |-> 1000, progressRange |-> <<95, 100>>] >>

\* Math.random() * 0.5, in eighths of a percent
Randoms == {0, 3}

MathMin(a, b) == IF a <= b THEN a ELSE b

\* the locals of one simulateProgress() closure: intervals holds the stages
\* whose interval is set, timeouts counts the pending updateStage timeouts;
\* also what stands for a closure nothing refers to any more
NoSim ==
    [progress |-> 0, currentStage |-> 0, isRunning |-> FALSE, intervals |-> {},
     timeouts |-> 0]

\* a closure and the page's elements after a function of the simulation ran
Ran(sim, d) == [sim |-> sim, dom |-> d]

updateStage(s, d) ==
    IF ~s.isRunning \/ s.currentStage >= Len(stages) THEN Ran(s, d)
    ELSE LET stage == stages[s.currentStage + 1]
             minProgress == stage.progressRange[1] * Unit
         IN  Ran([s EXCEPT !.progress = minProgress,
                           !.intervals = @ \cup {s.currentStage}],
                 [d EXCEPT !.progressText = stage.name,
                           !.statusText = stage.status,
                           !.width = minProgress])

\* the callback of the interval updateStage set for stage k
stageInterval(s, d, k, random) ==
    IF ~s.isRunning THEN Ran([s EXCEPT !.intervals = @ \ {k}], d)
    ELSE LET stage == stages[k + 1]
             minProgress == stage.progressRange[1] * Unit
             maxProgress == stage.progressRange[2] * Unit
             incrementSize == (maxProgress - minProgress) \div (stage.duration \div IntervalMs)
             progress == s.progress + incrementSize + random
         IN  IF progress >= maxProgress
             THEN LET currentStage == s.currentStage + 1
                  IN  Ran([s EXCEPT !.progress = maxProgress,
                                    !.intervals = @ \ {k},
                                    !.currentStage = currentStage,
                                    !.timeouts =
                                        IF currentStage < Len(stages) /\ s.isRunning
                                        THEN @ + 1 ELSE @],
                          [d EXCEPT !.width = MathMin(maxProgress, 100 * Unit)])
             ELSE Ran([s EXCEPT !.progress = progress],
                      [d EXCEPT !.width = MathMin(progress, 100 * Unit)])

simulateProgress(d) == updateStage([NoSim EXCEPT !.isRunning = TRUE], d)

\* the stop method of the object simulateProgress returns
stop(s, d) ==
    Ran([s EXCEPT !.isRunning = FALSE, !.intervals = {}, !.timeouts = 0],
        [d EXCEPT !.width = 100 * Unit,
                  !.progressText = "Concluido!",
                  !.statusText = "Download finalizado com sucesso"])

resetProgress(d) ==
    [d EXCEPT !.width = 0,
              !.progressText = "Preparando download...",
              !.statusText = "Aguardando..."]

\* a closure that neither the global nor a timer refers to is gone
Collect(closures, ref) ==
    [i \in DOMAIN closures |->
        IF i # ref /\ closures[i].intervals = {} /\ closures[i].timeouts = 0
        THEN NoSim ELSE closures[i]]

\* what the user has typed into the URL field, and the file the server
\* makes of each video
PageUrls == {"", UrlWatch, UrlShort}

PageFilename(url) == IF url = UrlWatch THEN "a.mp4" ELSE "b.mp4"

\* a plausible slip: the button left enabled while the request runs
ShowProcessing_Enabled(d) ==
    [d EXCEPT !.result = "none",
              !.videoInfo = FALSE,
              !.downloadSection = FALSE,
              !.progressContainer = TRUE]

\* the first statements of the try block of the downloadBtn click handler
ShowProcessing(d) ==
    [d EXCEPT !.downloadBtnDisabled = TRUE,
              !.result = "none",
              !.videoInfo = FALSE,
              !.downloadSection = FALSE,
              !.progressContainer = TRUE]

\* downloadBtn click
DownloadClick(url) ==
    /\ ~dom.downloadBtnDisabled
    /\ IF url = ""
       THEN /\ dom' = [dom EXCEPT !.result = "error"]
            /\ UNCHANGED <<currentFilename, progressSimulation, sims, downloads>>
       ELSE LET id == Len(sims) + 1
                run == simulateProgress(ShowProcessing(dom))
            IN  /\ Len(sims) + Len(fileClicks) < MaxClicks
                /\ sims' = Append(sims, run.sim)
                /\ progressSimulation' = id
                /\ dom' = run.dom
                /\ downloads' = downloads \cup
                       {[id |-> id, url |-> url, pc |-> "sent", filename |-> ""]}
                /\ UNCHANGED currentFilename
    /\ UNCHANGED <<fileClicks, pipeVars, sanVars, sweepVars, durVars, fileVars>>

\* the server answers POST /download: with the file it has written, or with
\* an error
DownloadServed(req, ok) ==
    /\ req \in downloads
    /\ req.pc = "sent"
    /\ files' = IF ok THEN Put(files, PageFilename(req.url), 1024, clock, "")
                ELSE files
    /\ downloads' = (downloads \ {req}) \cup
           {[req EXCEPT !.pc = "served",
                        !.filename = IF ok THEN PageFilename(req.url) ELSE ""]}
    /\ UNCHANGED <<build, nodeEnv, clients, clock, rq, sanVars, sweepVars, durVars,
                   fileVars, currentFilename, progressSimulation, sims, dom, fileClicks>>

\* the rest of the downloadBtn click handler, from the response on
DownloadResponse(req) ==
    /\ req \in downloads
    /\ req.pc = "served"
    /\ LET ok == req.filename # ""
           shown == IF ok
                    THEN [dom EXCEPT !.videoInfo = TRUE, !.result = "success",
                                     !.downloadSection = TRUE]
                    ELSE [dom EXCEPT !.result = "error"]
           stopped == IF progressSimulation # 0
                      THEN stop(sims[progressSimulation], shown)
                      ELSE Ran(NoSim, shown)
           closures == IF progressSimulation # 0
                       THEN [sims EXCEPT ![progressSimulation] = stopped.sim]
                       ELSE sims
       IN  /\ currentFilename' = IF ok THEN req.filename ELSE currentFilename
           /\ progressSimulation' = 0
           /\ sims' = Collect(closures, 0)
           /\ dom' = resetProgress([stopped.dom EXCEPT !.downloadBtnDisabled = FALSE,
                                                       !.progressContainer = FALSE])
    /\ downloads' = downloads \ {req}
    /\ UNCHANGED <<fileClicks, pipeVars, sanVars, sweepVars, durVars, fileVars>>

\* the interval of stage k of closure i fires
IntervalTick(i, k, random) ==
    /\ i \in DOMAIN sims
    /\ k \in sims[i].intervals
    /\ LET run == stageInterval(sims[i], dom, k, random)
       IN  /\ sims' = Collect([sims EXCEPT ![i] = run.sim], progressSimulation)
           /\ dom' = run.dom
    /\ UNCHANGED <<currentFilename, progressSimulation, downloads, fileClicks,
                   pipeVars, sanVars, sweepVars, durVars, fileVars>>

\* a pending setTimeout(updateStage, 200) of closure i fires
TimeoutFires(i) ==
    /\ i \in DOMAIN sims
    /\ sims[i].timeouts > 0
    /\ LET run == updateStage([sims[i] EXCEPT !.timeouts = @ - 1], dom)
       IN  /\ sims' = Collect([sims EXCEPT ![i] = run.sim], progressSimulation)
           /\ dom' = run.dom
    /\ UNCHANGED <<currentFilename, progressSimulation, downloads, fileClicks,
                   pipeVars, sanVars, sweepVars, durVars, fileVars>>

\* a run of the downloadFileBtn handler whose last callback has returned
FileClickDone == [pc |-> "done", downloadUrl |-> "", body |-> "", status |-> 0]

\* downloadFileBtn click, up to the HEAD request
FileClick ==
    /\ ~dom.downloadFileBtnDisabled
    /\ dom.downloadSection
    /\ IF currentFilename = ""
       THEN /\ dom' = [dom EXCEPT !.result = "error"]
            /\ UNCHANGED fileClicks
       ELSE /\ Len(sims) + Len(fileClicks) < MaxClicks
            /\ dom' = [dom EXCEPT !.downloadFileBtnDisabled = TRUE]
            /\ fileClicks' = Append(fileClicks,
                   [pc |-> "head",
                    downloadUrl |-> "/download-file/" \o encodeURIComponent(currentFilename),
                    body |-> "", status |-> 0])
    /\ UNCHANGED <<currentFilename, progressSimulation, sims, downloads,
                   pipeVars, sanVars, sweepVars, durVars, fileVars>>

\* the HEAD request is answered: on to the GET, or to the fallback link
HeadResponse(h) ==
    /\ h \in DOMAIN fileClicks
    /\ fileClicks[h].pc = "head"
    /\ IF HeadAnswer(RouteParam(fileClicks[h].downloadUrl)).status = 200
       THEN /\ fileClicks' = [fileClicks EXCEPT ![h].pc = "get"]
            /\ UNCHANGED dom
       ELSE /\ fileClicks' = [fileClicks EXCEPT ![h].pc = "timers"]
            /\ dom' = [dom EXCEPT !.result = "success"]
    /\ UNCHANGED <<currentFilename, progressSimulation, sims, downloads,
                   pipeVars, sanVars, sweepVars, durVars, fileVars>>

\* the GET request is answered: the blob is saved or, when the answer is
\* not ok, the fallback link clicked; either way a success message is shown
\* and the cleanup timer and the re-enabling timer are set
GetResponse(h) ==
    /\ h \in DOMAIN fileClicks
    /\ fileClicks[h].pc = "get"
    /\ fileClicks' = [fileClicks EXCEPT ![h].pc = "timers"]
    /\ dom' = [dom EXCEPT !.result = "success"]
    /\ UNCHANGED <<currentFilename, progressSimulation, sims, downloads,
                   pipeVars, sanVars, sweepVars, durVars, fileVars>>

\* the timer of one second fires
ReenableTimer(h) ==
    /\ h \in DOMAIN fileClicks
    /\ fileClicks[h].pc = "timers"
    /\ fileClicks' = [fileClicks EXCEPT ![h].pc = "cleanupTimer"]
    /\ dom' = [dom EXCEPT !.downloadFileBtnDisabled = FALSE]
    /\ UNCHANGED <<currentFilename, progressSimulation, sims, downloads,
                   pipeVars, sanVars, sweepVars, durVars, fileVars>>

\* the timer of two seconds fires: POST /cleanup-file is sent
CleanupTimer(h) ==
    /\ h \in DOMAIN fileClicks
    /\ fileClicks[h].pc = "cleanupTimer"
    /\ fileClicks' = [fileClicks EXCEPT ![h].pc = "cleanupSent",
                                        ![h].body = currentFilename]
    /\ UNCHANGED <<currentFilename, progressSimulation, sims, dom, downloads,
                   pipeVars, sanVars, sweepVars, durVars, fileVars>>

\* the server handles the POST /cleanup-file of handler h
CleanupServed(h, unlinkThrows) ==
    /\ h \in DOMAIN fileClicks
    /\ fileClicks[h].pc = "cleanupSent"
    /\ LET answer == CleanupAnswer(fileClicks[h].body # "", fileClicks[h].body,
                                   unlinkThrows)
       IN  /\ CleanupDisk(answer)
           /\ fileClicks' = [fileClicks EXCEPT ![h].pc = "cleanupAnswered",
                                               ![h].status = answer.status]
    /\ UNCHANGED <<build, nodeEnv, clients, clock, rq, sanVars, sweepVars, durVars,
                   fileReq, currentFilename, progressSimulation, sims, dom, downloads>>

\* the rest of the timer callback, from the response on
CleanupResponse(h) ==
    /\ h \in DOMAIN fileClicks
    /\ fileClicks[h].pc = "cleanupAnswered"
    /\ fileClicks' = [fileClicks EXCEPT ![h] = FileClickDone]
    /\ IF fileClicks[h].status = 200
       THEN /\ currentFilename' = ""
            /\ dom' = [dom EXCEPT !.downloadSection = FALSE, !.videoInfo = FALSE,
                                  !.result = "success"]
       ELSE UNCHANGED <<currentFilename, dom>>
    /\ UNCHANGED <<progressSimulation, sims, downloads,
                   pipeVars, sanVars, sweepVars, durVars, fileVars>>

ClientInit ==
    /\ build = "current"
    /\ nodeEnv = "production"
    /\ clients = {}
    /\ files = EmptyDir
    /\ clock = 2
    /\ rq = [r \in Requests |-> IdleReq]
    /\ sanIn = ""
    /\ sanOut = ""
    /\ sanDone = FALSE
    /\ maxAgeEnv = ""
    /\ sweep = NoSweep
    /\ durIn = 0
    /\ durOut = NoDurations
    /\ durDone = FALSE
    /\ appFiles = AppFiles
    /\ fileReq = NoFileReq
    /\ PageLoaded

ClientNext ==
    \/ \E url \in PageUrls : DownloadClick(url)
    \/ \E req \in downloads, ok \in BOOLEAN : DownloadServed(req, ok)
    \/ \E req \in downloads : DownloadResponse(req)
    \/ \E i \in DOMAIN sims, k \in 0..(Len(stages) - 1), random \in Randoms :
          IntervalTick(i, k, random)
    \/ \E i \in DOMAIN sims : TimeoutFires(i)
    \/ FileClick
    \/ \E h \in DOMAIN fileClicks : HeadResponse(h)
    \/ \E h \in DOMAIN fileClicks : GetResponse(h)
    \/ \E h \in DOMAIN fileClicks : ReenableTimer(h)
    \/ \E h \in DOMAIN fileClicks : CleanupTimer(h)
    \/ \E h \in DOMAIN fileClicks, unlinkThrows \in BOOLEAN : CleanupServed(h, unlinkThrows)
    \/ \E h \in DOMAIN fileClicks : CleanupResponse(h)

ClientSpec == ClientInit /\ [][ClientNext]_vars

(***************************************************************************)
(* Properties                                                              *)
(***************************************************************************)
Count(log, op) == Cardinality({ j \in 1..Len(log) : log[j].op = op })

IsStrategyEvent(e) == e.op = "strategy"

StrategyAttempts(log) == SelectSeq(log, IsStrategyEvent)

Last(seq) == seq[Len(seq)]

\* the phrases of the fallback policy, as the claim lists them
HasBlockSignature(message) ==
    \/ Includes(message, "age")
    \/ Includes(message, "bot")
    \/ Includes(message, "Sign in to confirm")

PrimarySucceeded(q) == q.resp.status = 200 /\ q.resp.method # "Invidious"

\* C1: in the build with the fallback, a request whose primary path failed
\* with a message containing "bot", "Sign in to confirm" or "age" has
\* invoked downloadViaInvidious exactly once; one whose primary path failed
\* with any other message has never invoked it and its handler received
\* that very error; one whose primary path has not failed has never
\* invoked it.
C1_FallbackOnlyOnSignature ==
    \A r \in Requests :
        LET q == rq[r]
            invoked == Count(q.log, "invidious")
        IN  build = "current" =>
                IF q.thrown = "" THEN invoked = 0
                ELSE IF HasBlockSignature(q.thrown) THEN invoked = 1
                ELSE /\ invoked = 0
                     /\ q.pc = "done"
                     /\ q.logged = q.thrown
                     /\ q.resp.status = 500

C1_Witness ==
    \E r \in Requests :
        /\ build = "current"
        /\ rq[r].thrown # ""
        /\ Includes(rq[r].thrown, "Sign in to confirm")
        /\ Count(rq[r].log, "invidious") = 1
        /\ rq[r].pc = "done"

\* C2: the strategies a request has attempted are 1, 2, ..., i in this
\* order, once each, i being the running or last attempted strategy; and
\* once the primary path has succeeded at strategy i nothing was invoked
\* after that attempt.
C2_StrategiesInOrder ==
    \A r \in Requests :
        LET q == rq[r]
            attempts == StrategyAttempts(q.log)
        IN  /\ Len(attempts) = q.i
            /\ \A j \in 1..Len(attempts) : attempts[j].n = j
            /\ q.i <= Len(downloadStrategies(build, "", "", ""))
            /\ PrimarySucceeded(q) => Last(q.log) = Event("strategy", q.i)

C2_Witness ==
    \E r \in Requests :
        /\ PrimarySucceeded(rq[r])
        /\ rq[r].i = 2
        /\ rq[r].lastError # ""
        /\ build = "legacy"

\* C3: a request whose metadata query failed, timed out (the exec
\* rejected) or returned text that does not parse to an object has run no
\* strategy command, and its primary path has failed.
C3_FailFast ==
    \A r \in Requests :
        rq[r].infoKind \in {"execFail", "garbage", "null"} =>
            /\ Count(rq[r].log, "strategy") = 0
            /\ rq[r].thrown # ""

C3_Witness ==
    \E r \in Requests :
        /\ rq[r].infoKind = "garbage"
        /\ rq[r].pc = "done"
        /\ rq[r].resp.status = 500

\* C4: a request with no url, with a url outside the pattern, or with a
\* format other than mp4, webm, mp3 is answered 400, has invoked nothing,
\* and, no other request having run, the downloads directory is untouched.
C4_InvalidRejected ==
    /\ \A r \in Requests :
         (rq[r].pc # "idle" /\ rq[r].body \in InvalidBodies) =>
            /\ rq[r].pc = "done"
            /\ rq[r].resp.status = 400
            /\ rq[r].log = <<>>
    /\ (\A r \in Requests : rq[r].pc # "idle" => rq[r].body \in InvalidBodies)
          => files = EmptyDir

C4_Witness ==
    \E r \in Requests :
        /\ rq[r].body.url = "https://youtu.be/short"
        /\ rq[r].resp.status = 400
        /\ rq[r].log = <<>>

\* C5: every successful response names a file that exists in the downloads
\* directory with a size greater than zero.
C5_ResultFileNonEmpty ==
    \A r \in Requests :
        rq[r].resp.status = 200 =>
            /\ rq[r].resp.filename \in DOMAIN files
            /\ files[rq[r].resp.filename].size > 0

\* C6: what the strategy loop throws after its last strategy failed is
\* the error of that last attempt.
C6_LastErrorThrown ==
    \A r \in Requests :
        LET q == rq[r]
            last == Len(downloadStrategies(build, "", "", ""))
            command == downloadStrategies(build, q.ytDlpCommand, q.sanitizedTitle, q.url)[last]
        IN  /\ q.runnerError # "" =>
                /\ q.i = last
                /\ \E e \in StdErrs : q.runnerError = ExecError(command, e)
                /\ q.thrown = q.runnerError
            /\ (q.i = last /\ q.pc \notin {"strategy", "backoff"}
                  /\ ~PrimarySucceeded(q)
                  /\ q.thrown \notin {FileMissingMessage(build), FileEmptyMessage(build)})
                  => q.runnerError # ""

C6_Witness ==
    \E r \in Requests :
        /\ build = "legacy"
        /\ rq[r].runnerError # ""
        /\ Includes(rq[r].runnerError, "Video unavailable")
        /\ rq[r].pc = "done"

\* C7: every failure after validation is answered 500 with the one
\* generic message, whatever the error that was logged.
C7_GenericFailure ==
    \A r \in Requests :
        (rq[r].pc = "done" /\ rq[r].resp.status \notin {200, 400}) =>
            /\ rq[r].logged # ""
            /\ rq[r].resp =
                 Resp(500, "Erro interno do servidor", "", "", "", "", "", "")

C7_Witness ==
    \E r \in Requests :
        /\ rq[r].logged = "Arquivo vazio ou corrompido"
        /\ rq[r].resp.status = 500

\* the failure signatures the claim lists
HasKnownSignature(message) ==
    \E phrase \in {"Video unavailable", "Private video", "Sign in to confirm",
                   "age", "This video is not available", "removed", "network",
                   "timeout", "Connection", "format", "Command failed"} :
        Includes(message, phrase)

\* C8: when the raw error text of a failed download matches a known
\* signature, the message in the /download response is its classification,
\* not the generic internal-error message.
C8_ClassificationSurfaced ==
    \A r \in Requests :
        (build = "legacy" /\ rq[r].pc = "done" /\ rq[r].thrown # ""
            /\ HasKnownSignature(rq[r].thrown)) =>
            /\ rq[r].resp.error = Classify(rq[r].thrown)
            /\ rq[r].resp.error # "Erro interno do servidor"

HasDoubleWhitespace(s) ==
    \E j \in 1..(Len(s) - 1) :
        CharAt(s, j) \in WhitespaceChars /\ CharAt(s, j + 1) \in WhitespaceChars

\* C9: the output of sanitizeFilename holds none of < > : " / \ | ? *, no
\* two whitespace characters in a row, and no whitespace at either end.
C9_SanitizedShape ==
    sanDone =>
        /\ \A j \in 1..Len(sanOut) :
             CharAt(sanOut, j) \notin {"<", ">", ":", "\"", "/", "\\", "|", "?", "*"}
        /\ ~HasDoubleWhitespace(sanOut)
        /\ sanOut # "" =>
             /\ CharAt(sanOut, 1) \notin WhitespaceChars
             /\ CharAt(sanOut, Len(sanOut)) \notin WhitespaceChars

C9_Witness ==
    /\ sanDone
    /\ sanIn = "< a"
    /\ sanOut = "a"

\* C10: no file of the downloads directory has an empty base name, and no
\* strategy runs or searches under an empty sanitized title.
C10_NoEmptyBaseName ==
    /\ \A n \in DOMAIN files : ~StartsWith(n, ".")
    /\ \A r \in Requests :
         rq[r].pc \in {"strategy", "backoff"} => rq[r].sanitizedTitle # ""

\* C11: the file a successful primary path returns is, among the entries of
\* the downloads directory whose name starts with the sanitized title, one
\* of greatest modification time; with foo.mp4 written at T, foo.part at
\* T+1 and sanitized title foo it is foo.part.
C11_MostRecentWins ==
    \A r \in Requests :
        LET q == rq[r]
            f == q.resp.filename
        IN  PrimarySucceeded(q) =>
                /\ f \in DOMAIN files
                /\ SubSeq(f, 1, Len(q.sanitizedTitle)) = q.sanitizedTitle
                /\ \A n \in DOMAIN files :
                      SubSeq(n, 1, Len(q.sanitizedTitle)) = q.sanitizedTitle
                          => files[n].mtime <= files[f].mtime
                /\ (/\ q.sanitizedTitle = "foo"
                    /\ DOMAIN files = {"foo.mp4", "foo.part"}
                    /\ files["foo.part"].mtime = files["foo.mp4"].mtime + 1)
                      => f = "foo.part"

C11_Witness ==
    \E r \in Requests :
        /\ PrimarySucceeded(rq[r])
        /\ rq[r].sanitizedTitle = "foo"
        /\ DOMAIN files = {"foo.mp4", "foo.part"}
        /\ files["foo.part"].mtime = files["foo.mp4"].mtime + 1
        /\ rq[r].resp.filename = "foo.part"

\* the entries whose name starts with the title, and the latest written
HasPrefix(name, title) == SubSeq(name, 1, Len(title)) = title

LatestOf(names) == CHOOSE n \in names : \A m \in names : files[m].mtime <= files[n].mtime

\* C12: once a strategy of a request has succeeded, the request ends in one
\* of three ways: no entry starts with the sanitized title and it fails
\* with the file-missing error; the latest such entry has size zero and it
\* fails with the empty-file error; or that entry has a non-zero size and
\* the request succeeds with its name.
C12_LocateAndVerify ==
    \A r \in Requests :
        LET q == rq[r]
            matching == { n \in DOMAIN files : HasPrefix(n, q.sanitizedTitle) }
        IN  (q.pc = "done" /\ q.i >= 1 /\ q.runnerError = "") =>
                IF matching = {}
                THEN /\ q.thrown \in {"Arquivo nao foi criado", "Arquivo de video nao foi criado"}
                     /\ q.resp.status = 500
                ELSE IF files[LatestOf(matching)].size = 0
                THEN /\ q.thrown \in {"Arquivo vazio ou corrompido",
                                      "Arquivo nao foi criado ou esta vazio"}
                     /\ q.resp.status = 500
                ELSE /\ q.thrown = ""
                     /\ q.resp.status = 200
                     /\ q.resp.filename = LatestOf(matching)

C12_Witness ==
    \E r \in Requests :
        /\ rq[r].pc = "done"
        /\ rq[r].runnerError = ""
        /\ rq[r].thrown = "Arquivo vazio ou corrompido"
        /\ rq[r].sanitizedTitle = "foo"
        /\ DOMAIN files = {"foo.mp4", "foo.part"}
        /\ files["foo.mp4"].size > 0
        /\ files["foo.part"].size = 0

\* the threshold the environment configures, in hours: 24 when unset
ConfiguredHours(env) == IF env = "" THEN 24 ELSE ParseDigits(env, 0)

\* C13: a run of the sweeper with no deletion failure, over a directory no
\* one else touches meanwhile, leaves exactly the files whose age is at most
\* the configured threshold (24 hours when none is configured), unchanged.
C13_SweepDeletesExpired ==
    (sweep.ran /\ sweep.failed = {} /\ sweep.vanished = {}) =>
        /\ DOMAIN files =
             { n \in DOMAIN sweep.listed :
                 clock - sweep.listed[n].mtime
                     <= ConfiguredHours(maxAgeEnv) * 60 * 60 * 1000 }
        /\ \A n \in DOMAIN files : files[n] = sweep.listed[n]

\* C14: in production, once a request has found a candidate whose version
\* probe succeeded, a request received afterwards by the same process
\* starts no version probe.
C14_ProbedOncePerProcess ==
    [][\A r \in Requests :
          (/\ nodeEnv = "production"
           /\ rq[r].pc = "idle"
           /\ \E o \in Requests \ {r} : rq[o].ytDlpCommand # "")
              => Count(rq'[r].log, "probe") = 0]_vars

IsMetaFetchEvent(e) == e.op = "fetchMeta"

\* what one step may do to a request that is inside the fallback provider
FallbackStep(q, q2) ==
    \/ q2 = q
    \/ /\ q.pc = "metaFetch"
       /\ q2.pc = "videoFetch"
       /\ q2.inst = q.inst
       /\ q2.stream.container = "mp4"
    \/ /\ q.pc = "videoFetch"
       /\ q2.pc = "done"
       /\ q2.inst = q.inst
       /\ q2.resp.status = 200
       /\ q2.resp.method = "Invidious"
    \/ /\ q.inst < Len(instances)
       /\ q2.pc = "metaFetch"
       /\ q2.inst = q.inst + 1
    \/ /\ q.inst = Len(instances)
       /\ q2.pc = "done"
       /\ q2.resp.status = 500
       /\ q2.logged = "Todas as instancias Invidious falharam"

\* C15: the fallback provider contacts the endpoints 1, 2, ... of its list
\* in order, once each; from an endpoint it goes on to the stream of an mp4
\* format, then to the result, or else to the next endpoint, and after the
\* last endpoint to the all-instances-failed error; once it has produced a
\* result no further endpoint was contacted.
C15_FallbackInOrder ==
    /\ [](\A r \in Requests :
            LET q == rq[r]
                visits == SelectSeq(q.log, IsMetaFetchEvent)
            IN  /\ Len(visits) = q.inst
                /\ \A j \in 1..Len(visits) : visits[j].n = j
                /\ q.inst <= Len(instances)
                /\ q.resp.method = "Invidious" =>
                      /\ q.pc = "done"
                      /\ Last(q.log) = Event("fetchMeta", q.inst)
                /\ q.logged = "Todas as instancias Invidious falharam" =>
                      q.inst = Len(instances))
    /\ [][\A r \in Requests :
            rq[r].pc \in {"metaFetch", "videoFetch"} => FallbackStep(rq[r], rq'[r])]_vars

C15_Witness ==
    \E r \in Requests :
        /\ rq[r].resp.status = 200
        /\ rq[r].resp.method = "Invidious"
        /\ rq[r].inst = 3
        /\ Len(SelectSeq(rq[r].log, IsMetaFetchEvent)) = 3

\* C16: the method of a successful response names the path that produced
\* the file: the primary path when the fallback provider was never invoked
\* (whichever strategy succeeded), the fallback provider otherwise; on the
\* primary path the quality is the metadata height followed by p, or N/A
\* when the metadata has no height.
C16_MethodAndQuality ==
    \A r \in Requests :
        LET q == rq[r] IN
        q.resp.status = 200 =>
            IF Count(q.log, "invidious") = 0
            THEN /\ q.resp.method = "yt-dlp"
                 /\ q.resp.quality =
                      IF q.info.height # 0 THEN ToString(q.info.height) \o "p" ELSE "N/A"
            ELSE q.resp.method = "Invidious"

\* C17: for s seconds the formatted duration is floor(s/60), a colon, and
\* s mod 60 written with two digits; 0 gives 0:00, 59 gives 0:59, 125 gives
\* 2:05; the primary path and the fallback path give the same text.
C17_DurationFormat ==
    durDone =>
        /\ durOut.fallback =
             ToString(durIn \div 60) \o ":"
                 \o (IF durIn % 60 < 10 THEN "0" ELSE "") \o ToString(durIn % 60)
        /\ durOut.primary = durOut.fallback
        /\ durIn = 0 => durOut.primary = "0:00"
        /\ durIn = 59 => durOut.primary = "0:59"
        /\ durIn = 125 => durOut.primary = "2:05"

C17_Witness ==
    /\ durDone
    /\ durIn = 125
    /\ durOut = [primary |-> "2:05", fallback |-> "2:05"]

\* C18: when every download strategy has failed and the error output of the
\* external tool contains none of "bot", "Sign in to confirm", "age", the
\* failure goes to the handler at once and the fallback provider is not
\* invoked.
C18_NarrowFallback ==
    \A r \in Requests :
        LET q == rq[r]
            last == Len(downloadStrategies(build, "", "", ""))
            command == downloadStrategies(build, q.ytDlpCommand, q.sanitizedTitle, q.url)[last]
        IN  (build = "current" /\ q.runnerError # "") =>
                \A stderr \in StdErrs :
                    (q.runnerError = ExecError(command, stderr)
                        /\ ~HasBlockSignature(stderr)) =>
                        /\ Count(q.log, "invidious") = 0
                        /\ q.pc = "done"
                        /\ q.logged = q.runnerError

\* C19: nothing keeps the requests apart on the downloads directory: the
\* step in which a request locates its file returns the latest entry whose
\* name starts with its sanitized title, whichever request wrote it; so a
\* request can return the file another request wrote (the witness).
C19_NoMutualExclusion ==
    [][\A r \in Requests :
          (rq[r].pc = "strategy" /\ rq'[r].pc = "done" /\ rq'[r].resp.status = 200) =>
              /\ rq'[r].resp.filename \in DOMAIN files'
              /\ HasPrefix(rq'[r].resp.filename, rq[r].sanitizedTitle)
              /\ \A n \in DOMAIN files' :
                    HasPrefix(n, rq[r].sanitizedTitle) =>
                        files'[n].mtime <= files'[rq'[r].resp.filename].mtime]_vars

C19_Witness ==
    \E r, o \in Requests :
        /\ r # o
        /\ rq[r].resp.status = 200
        /\ rq[r].sanitizedTitle = "foo"
        /\ rq[r].resp.filename = "foo bar.mp4"
        /\ rq[o].sanitizedTitle = "foo bar"
        /\ rq[o].pc = "strategy"
        /\ "foo bar.mp4" \in DOMAIN files
        /\ files["foo bar.mp4"].writer = o

\* C20: a request that passed validation is eventually answered, with 200
\* or 500, and once answered it is never answered again.
C20_AlwaysAnswered ==
    /\ \A r \in Requests : (rq[r].pc \notin {"idle", "done"}) ~> (rq[r].pc = "done")
    /\ [](\A r \in Requests :
            (rq[r].pc = "done" /\ rq[r].log # <<>>) => rq[r].resp.status \in {200, 500})
    /\ [][\A r \in Requests : rq[r].pc = "done" => rq'[r] = rq[r]]_vars

(***************************************************************************)
(* C21: the external invocations of one request are strictly sequential:   *)
(* at no time are two of them in flight, exactly one is in flight while    *)
(* the request waits on a probe, the metadata query or a strategy, the     *)
(* metadata query has ended (with the metadata) before the first strategy  *)
(* starts, and the strategies start in the order of the list.              *)
(***************************************************************************)
C21_Sequential ==
    \A r \in Requests :
        LET q == rq[r] IN
        /\ q.inflight \in {0, 1}
        /\ q.inflight = 1 <=> q.pc \in {"probe", "info", "strategy"}
        /\ \A a \in 1..Len(q.log) :
              q.log[a].op = "strategy" =>
                /\ q.infoKind = "json"
                /\ \E b \in 1..(a - 1) : q.log[b] = Event("info", 0)
                /\ \A b \in 1..(a - 1) :
                      q.log[b].op = "strategy" => q.log[b].n < q.log[a].n

C21_Witness ==
    \E r \in Requests :
        /\ rq[r].pc = "strategy"
        /\ rq[r].i = 3
        /\ rq[r].inflight = 1
        /\ Count(rq[r].log, "strategy") = 3

(***************************************************************************)
(* C22: in production the candidates are probed in the order of            *)
(* ytdlpOptions, from the first; the command used is the candidate of the  *)
(* last probe made (the first that succeeded) and nothing is probed after  *)
(* it; when all three probes failed the request fails with the             *)
(* tool-not-found error, having run no metadata query and no strategy.     *)
(* Outside production no probe is made and the local path is used.         *)
(***************************************************************************)
Probes(log) == Count(log, "probe")

C22_ProbeOrder ==
    \A r \in Requests :
        LET q == rq[r]
            m == Probes(q.log)
        IN
        /\ nodeEnv = "production" =>
              /\ m <= Len(ytdlpOptions)
              /\ \A j \in 1..m : q.log[j] = Event("probe", j)
              /\ q.ytDlpCommand # "" =>
                    /\ q.ytDlpCommand = ytdlpOptions[m]
                    /\ q.log[m + 1] = Event("info", 0)
              /\ (q.pc # "probe" /\ q.ytDlpCommand = "" /\ m > 0) =>
                    /\ m = Len(ytdlpOptions)
                    /\ Len(q.log) = m
                    /\ q.thrown = ToolNotFoundMessage(build)
                    /\ q.pc = "done"
                    /\ q.resp.status = 500
              /\ q.thrown = ToolNotFoundMessage(build) =>
                    Count(q.log, "info") = 0 /\ Count(q.log, "strategy") = 0
        /\ nodeEnv # "production" =>
              /\ m = 0
              /\ q.log # <<>> => q.ytDlpCommand = LocalYtDlp /\ q.log[1] = Event("info", 0)
              /\ q.thrown # ToolNotFoundMessage(build)

\* the second candidate answered after the first did not, and is in use
C22_Witness ==
    \E r \in Requests :
        /\ nodeEnv = "production"
        /\ rq[r].ytDlpCommand = "python3 -m yt_dlp"
        /\ rq[r].pc = "strategy"

(***************************************************************************)
(* C23: between a failed strategy and the attempt that follows it the      *)
(* runner waits once (the fixed 2 s timer): every strategy after the first *)
(* is immediately preceded in the request's history by one wait, the first *)
(* strategy by none, and no wait follows the last attempt.                 *)
(***************************************************************************)
C23_BackoffBetweenAttempts ==
    \A r \in Requests :
        LET log == rq[r].log IN
        /\ \A a \in 1..Len(log) :
              /\ (log[a].op = "strategy" /\ log[a].n > 1) =>
                    /\ log[a - 1] = Event("wait", log[a].n - 1)
                    /\ log[a - 2] = Event("strategy", log[a].n - 1)
              /\ (log[a].op = "strategy" /\ log[a].n = 1) => log[a - 1].op # "wait"
              /\ log[a].op = "wait" =>
                    /\ log[a - 1] = Event("strategy", log[a].n)
                    /\ rq[r].pc # "backoff" => log[a + 1] = Event("strategy", log[a].n + 1)

(***************************************************************************)
(* C24: the reroute is one-shot.  In the history of a request the primary  *)
(* path starts once (one metadata query, each strategy once), the          *)
(* fallback starts at most once, after the fallback has started only its   *)
(* own fetches follow, and a request whose fallback did not produce a      *)
(* result ends with the failure answer.                                    *)
(***************************************************************************)
FallbackStarted(q) == Count(q.log, "invidious") > 0

C24_OneShotReroute ==
    \A r \in Requests :
        LET q == rq[r] IN
        /\ Count(q.log, "info") <= 1
        /\ Count(q.log, "invidious") <= 1
        /\ \A a \in 1..Len(q.log) :
              /\ q.log[a].op \in {"probe", "strategy"} =>
                    \A b \in (a + 1)..Len(q.log) : q.log[a] # q.log[b]
              /\ q.log[a].op = "invidious" =>
                    \A b \in (a + 1)..Len(q.log) : q.log[b].op = "fetchMeta"
        /\ FallbackStarted(q) =>
              /\ build = "current"
              /\ q.pc \in {"metaFetch", "videoFetch", "done"}
              /\ (q.pc = "done" /\ q.resp.method # "Invidious") =>
                    /\ q.resp = ErrorResp(500, GenericMessage)
                    /\ q.logged \in {AllInstancesFailedMessage, InvalidUrlMessage}

\* the fallback was started, failed on every instance, and the request ended
C24_Witness ==
    \E r \in Requests :
        /\ FallbackStarted(rq[r])
        /\ rq[r].pc = "done"
        /\ rq[r].logged = AllInstancesFailedMessage
        /\ Count(rq[r].log, "strategy") > 0

(***************************************************************************)
(* C25: the stream the fallback fetches is an mp4 stream of the highest    *)
(* quality not above 720 among the streams the instance listed; only when  *)
(* the instance lists no such stream is it some other mp4 stream; an       *)
(* instance that lists no mp4 stream is never fetched from.                *)
(***************************************************************************)
C25_HighestCappedMp4 ==
    \A r \in Requests :
        rq[r].pc = "videoFetch" =>
            LET streams == rq[r].data.formatStreams
                capped == { j \in 1..Len(streams) : IsCappedMp4(streams[j]) }
                chosen == rq[r].stream
            IN
            /\ IsMp4(chosen)
            /\ \E j \in 1..Len(streams) : streams[j] = chosen
            /\ capped # {} =>
                  /\ IsCappedMp4(chosen)
                  /\ \A j \in capped :
                        parseInt(streams[j].qualityLabel) <= parseInt(chosen.qualityLabel)

(***************************************************************************)
(* C26: a deletion that fails does not end the sweep.  In a run in which   *)
(* no listed file disappears meanwhile, every listed file is examined,     *)
(* every failed deletion is logged, every expired file whose deletion did  *)
(* not fail is deleted, whether listed before or after a failing one, and  *)
(* the other files are left as they were.                                  *)
(***************************************************************************)
C26_SweepSurvivesFailedDelete ==
    (sweep.ran /\ sweep.vanished = {}) =>
        /\ sweep.examined = DOMAIN sweep.listed
        /\ sweep.logged = sweep.failed
        /\ \A n \in DOMAIN sweep.listed :
              IF IsExpired(sweep.listed[n], clock, maxAgeEnv) /\ n \notin sweep.failed
              THEN n \notin DOMAIN files
              ELSE n \in DOMAIN files /\ files[n] = sweep.listed[n]

\* a deletion failed and an expired file listed after it was deleted
C26_Witness ==
    /\ sweep.ran
    /\ sweep.vanished = {}
    /\ \E a, b \in 1..Len(sweep.order) :
          /\ a < b
          /\ sweep.order[a] \in sweep.failed
          /\ sweep.order[b] \notin DOMAIN files

(***************************************************************************)
(* C27: no step of the primary path removes or alters a file.  Whenever    *)
(* the handler of a request moves on from a probe, the metadata query, a   *)
(* strategy (failed or not, the located file missing or empty) or the      *)
(* wait, the output directory is exactly what it was, partial files of     *)
(* failed attempts included; and no step of the server at all removes a    *)
(* file from the directory.                                                *)
(***************************************************************************)
PrimaryStep(r) ==
    /\ rq[r].pc \in {"probe", "info", "strategy", "backoff"}
    /\ rq'[r].log # rq[r].log \/ rq'[r].pc # rq[r].pc

C27_PrimaryNeverDeletes ==
    [][/\ (\E r \in Requests : PrimaryStep(r)) => files' = files
       /\ DOMAIN files \subseteq DOMAIN files']_vars

\* every strategy failed and the partial file of an attempt is still there
C27_Witness ==
    \E r \in Requests :
        /\ rq[r].pc = "done"
        /\ rq[r].resp.status = 500
        /\ rq[r].runnerError # ""
        /\ \E n \in DOMAIN files :
              /\ files[n].writer = r
              /\ n = rq[r].sanitizedTitle \o ".part"

(***************************************************************************)
(* C28: a listed file that is gone by the time the sweep comes to it does  *)
(* not end the sweep: every other listed file is still examined and,       *)
(* when expired and its deletion does not fail, deleted.                   *)
(***************************************************************************)
C28_SweepSurvivesVanished ==
    sweep.ran =>
        /\ DOMAIN sweep.listed \ sweep.vanished \subseteq sweep.examined
        /\ \A n \in DOMAIN sweep.listed \ sweep.vanished :
              (IsExpired(sweep.listed[n], clock, maxAgeEnv) /\ n \notin sweep.failed)
                  => n \notin DOMAIN files

(***************************************************************************)
(* C29: whatever filename a client sends, the file a file endpoint reads,  *)
(* measures or removes is a file of the output directory, and no file      *)
(* outside it is ever removed.                                             *)
(***************************************************************************)
C29_ConfinedToOutputDir ==
    /\ appFiles = AppFiles
    /\ fileReq.acted # <<>> =>
          /\ Len(fileReq.acted) = 3
          /\ SubSeq(fileReq.acted, 1, 2) = DownloadsPath

(***************************************************************************)
(* C30: the requested format has no effect.  Two requests for the same URL *)
(* with different valid formats, given the same outcomes of their external *)
(* calls, have made the same calls in the same order with the same command *)
(* lines, stand at the same point and have been answered alike: their      *)
(* records differ in nothing but the format they carry.                    *)
(***************************************************************************)
Commands(q) ==
    <<q.ytDlpCommand, infoCommand(q.ytDlpCommand, q.url),
      downloadStrategies(build, q.ytDlpCommand, q.sanitizedTitle, q.url)>>

C30_FormatHasNoEffect ==
    LET a == rq["r1"]
        b == rq["r2"]
    IN  a.pc # "idle" =>
            /\ a.url = b.url
            /\ a.format # b.format
            /\ b.log = a.log
            /\ Commands(b) = Commands(a)
            /\ b.resp = a.resp
            /\ [b EXCEPT !.body = a.body, !.format = a.format] = a

\* both were answered with a file, one asked for mp3 and one for webm
C30_Witness ==
    /\ BothAt("done")
    /\ rq["r1"].resp.status = 200
    /\ rq["r2"].resp.status = 200
    /\ rq["r1"].format = "mp3"
    /\ rq["r2"].format = "webm"

(***************************************************************************)
(* C31: the download URL round trip.  For every file of the output         *)
(* directory, a GET or HEAD of the downloadUrl the /download response      *)
(* gives for its name ("/download-file/" and the URI-encoded name) is      *)
(* answered 200 from exactly that file.                                    *)
(***************************************************************************)
C31_DownloadUrlRoundTrip ==
    [][\A n \in DOMAIN files :
          (\/ GetDownloadFile(RouteParam(DownloadUrl(n)))
           \/ HeadDownloadFile(RouteParam(DownloadUrl(n))))
              => /\ fileReq'.status = 200
                 /\ fileReq'.acted = DownloadsPath \o <<n>>]_vars

(***************************************************************************)
(* C32: POST /cleanup-file is idempotent and final.  For a name of the     *)
(* output directory, a call whose unlink does not fail answers success and *)
(* leaves the directory without that name and otherwise as it was, be it   *)
(* the first call or a later one, and removes nothing outside; a GET or    *)
(* HEAD of /download-file for that name that follows a successful call is  *)
(* answered 404.                                                           *)
(***************************************************************************)
CleanedUp(n) ==
    /\ fileReq.op = "cleanup"
    /\ fileReq.status = 200
    /\ fileReq.filename = n

C32_CleanupIdempotentFinal ==
    [][\A n \in FileNames :
          /\ CleanupFile(TRUE, n, FALSE) =>
                /\ fileReq'.status = 200
                /\ files' = Remove(files, n)
                /\ appFiles' = appFiles
          /\ (/\ CleanedUp(n)
              /\ \/ GetDownloadFile(RouteParam(DownloadUrl(n)))
                 \/ HeadDownloadFile(RouteParam(DownloadUrl(n))))
                => fileReq'.status = 404]_vars

\* C33: sanitizeFilename is idempotent: applying it to its own output gives
\* that output back, for every input title.
C33_SanitizeIdempotent ==
    sanDone => sanitizeFilename(sanOut) = sanOut

C33_Witness ==
    /\ sanDone
    /\ sanIn = "a :"
    /\ sanOut = "a"
    /\ sanitizeFilename(sanOut) = "a"

\* the file a run of the downloadFileBtn handler asked the server for
Downloaded(h) == decodeURIComponent(RouteParam(fileClicks[h].downloadUrl))

\* C34: the cleanup request a file download sends two seconds later names
\* the file that was downloaded, the server removes no other file for it,
\* and the client clears currentFilename only when it still holds that name,
\* whatever /download completes in between.
C34_CleanupOfDownloadedFile ==
    [][\A h \in DOMAIN fileClicks :
          /\ CleanupTimer(h) => fileClicks'[h].body = Downloaded(h)
          /\ (\E unlinkThrows \in BOOLEAN : CleanupServed(h, unlinkThrows)) =>
                 \A n \in DOMAIN files \ {Downloaded(h)} : n \in DOMAIN files'
          /\ (CleanupResponse(h) /\ currentFilename' = "") =>
                 currentFilename \in {"", Downloaded(h)}]_vars

\* a callback of a timer of closure i runs
TimerStep(i) ==
    \/ \E k \in 0..(Len(stages) - 1), random \in Randoms : IntervalTick(i, k, random)
    \/ TimeoutFires(i)

\* C35: the displayed progress never exceeds 100 percent; the stage index of
\* a simulation only goes up, one stage at a time through the six stages, each
\* shown as it starts; once a simulation is stopped it has no timer left and
\* no timer callback changes its progress or stage, nor what the page shows;
\* and the download button
\* is disabled exactly while a /download request is in flight, so that a
\* page has at most one in flight.
C35_ProgressAndButton ==
    /\ [](/\ dom.width <= 100 * Unit
          /\ \A i \in DOMAIN sims :
                /\ sims[i].progress <= 100 * Unit
                /\ sims[i].currentStage <= Len(stages)
                /\ ~sims[i].isRunning =>
                      sims[i].intervals = {} /\ sims[i].timeouts = 0
          /\ dom.downloadBtnDisabled <=> downloads # {}
          /\ Cardinality(downloads) <= 1)
    /\ [][\A i \in DOMAIN sims :
             /\ (sims[i].isRunning /\ sims'[i].isRunning) =>
                    sims'[i].currentStage \in {sims[i].currentStage, sims[i].currentStage + 1}
             /\ (sims[i].isRunning /\ TimeoutFires(i)) =>
                    dom'.progressText = stages[sims[i].currentStage + 1].name
             /\ (~sims[i].isRunning /\ TimerStep(i)) =>
                    /\ sims'[i].progress = sims[i].progress
                    /\ sims'[i].currentStage = sims[i].currentStage
                    /\ dom'.width = dom.width
                    /\ dom'.progressText = dom.progressText]_vars

C35_Witness ==
    /\ downloads # {}
    /\ dom.downloadBtnDisabled
    /\ dom.width = 100 * Unit
    /\ \E i \in DOMAIN sims :
          /\ sims[i].isRunning
          /\ sims[i].currentStage = Len(stages)

====
